---- MODULE Spec2Model ----
(* Community E-Library: the in-memory domain model of src/storage.py (class   *)
(* ELibrary with User and Resource) and the admin operations of src/admin.py  *)
(* that act on it; the integrated variant of src/library.py (StorageManager,  *)
(* StudentManager, AdminManager) and the StudentManager of src/student.py.    *)
EXTENDS Integers, Sequences, FiniteSets, TLC

VARIABLES users, resources, current_user, document, disk, last, registered,
          lib, sm, peer

vars == <<users, resources, current_user, document, disk, last, registered,
          lib, sm, peer>>

\* the ELibrary of this process with its data file
elibrary == <<users, resources, current_user, document, disk, registered>>

\* the other programs of the repository and the other process: lib is the
\* integrated variant of library.py with its files, sm the StudentManager of
\* student.py with its files, peer a second process running ELibrary on the
\* same data file
variants == <<lib, sm, peer>>

-----------------------------------------------------------------------------
(* Bounds of the model.                                                       *)

\* view_resource and download_resource are explored while the counter they
\* raise is below MaxCount
MaxCount == 2

-----------------------------------------------------------------------------
(* Values.                                                                    *)

\* Python's None for current_user
None == "none"

\* the ids Resource._generate_id returns in the model (8 hex digits in the code)
Ids == {"r1", "r2"}

\* User._hash_password: a deterministic one-way digest; the digest of a
\* password is a value of another kind than the password itself, and two
\* different passwords of the model have different digests.
HashPassword(password) == <<"sha256", password>>

\* User.verify_password
VerifyPassword(user, password) == user.password = HashPassword(password)

\* datetime.datetime.now().isoformat(): what the clock reads while the
\* library runs, and what it reads in a run that follows
Now == "t1"

Later == "t2"

\* User.__init__
NewUser(username, password, email, role) ==
  [username |-> username, password |-> HashPassword(password), email |-> email,
   role |-> role, favorites |-> <<>>, reading_history |-> <<>>, created_at |-> Now]

\* Resource.__init__ storing the default category whatever category is given
NewResourceDefaultCategory(id, title, author, subject, language, file_path, category, description) ==
  [id |-> id, title |-> title, author |-> author, subject |-> subject,
   language |-> language, file_path |-> file_path, category |-> <<"C", "o", "r", "e">>,
   description |-> description, download_count |-> 0, view_count |-> 0,
   added_date |-> Now]

\* Resource.__init__ (the id is what _generate_id returned)
NewResource(id, title, author, subject, language, file_path, category, description) ==
  [id |-> id, title |-> title, author |-> author, subject |-> subject,
   language |-> language, file_path |-> file_path, category |-> category,
   description |-> description, download_count |-> 0, view_count |-> 0,
   added_date |-> Now]

\* members of a Python list
Members(list) == {list[i] : i \in 1..Len(list)}

\* the dicts self.users and self.resources keep insertion order: the model
\* holds each as the list of its values, keyed by username and by id
UserNames(us) == {us[i].username : i \in 1..Len(us)}

ResourceIds(rs) == {rs[i].id : i \in 1..Len(rs)}

UserIndex(us, username) == CHOOSE i \in 1..Len(us) : us[i].username = username

IndexOf(rs, id) == CHOOSE i \in 1..Len(rs) : rs[i].id = id

\* self.users[username]
UserOf(us, username) == us[UserIndex(us, username)]

\* self.resources[id]
ResourceOf(rs, id) == rs[IndexOf(rs, id)]

\* self.resources[resource.id] = resource: a new key is appended, an existing
\* key keeps its position and gets the new value
PutResource(rs, r) ==
  IF r.id \in ResourceIds(rs)
  THEN [rs EXCEPT ![IndexOf(rs, r.id)] = r]
  ELSE Append(rs, r)

\* self.users[username] = user
PutUser(us, user) ==
  IF user.username \in UserNames(us)
  THEN [us EXCEPT ![UserIndex(us, user.username)] = user]
  ELSE Append(us, user)

\* del self.users[username]
DelUser(us, username) ==
  LET k == UserIndex(us, username)
  IN  SubSeq(us, 1, k - 1) \o SubSeq(us, k + 1, Len(us))

\* dict.get(key, default)
Get(data, key, default) == IF key \in DOMAIN data THEN data[key] ELSE default

\* User.to_dict: the stored digest is written as it is
UserToDict(user) ==
  [username |-> user.username, password |-> user.password, email |-> user.email,
   role |-> user.role, favorites |-> user.favorites,
   reading_history |-> user.reading_history, created_at |-> user.created_at]

\* User.from_dict: username and password are required keys (KeyError when
\* absent), the others have defaults; the password is not hashed again
UserRequired == {"username", "password"}

\* from_dict that passes the stored password to _hash_password, as __init__ does
UserFromDictHashing(data, now) ==
  [username |-> data.username, password |-> HashPassword(data.password),
   email |-> Get(data, "email", ""), role |-> Get(data, "role", "student"),
   favorites |-> Get(data, "favorites", <<>>),
   reading_history |-> Get(data, "reading_history", <<>>),
   created_at |-> Get(data, "created_at", now)]

\* now is what the clock reads at the load
UserFromDict(data, now) ==
  [username |-> data.username, password |-> data.password,
   email |-> Get(data, "email", ""), role |-> Get(data, "role", "student"),
   favorites |-> Get(data, "favorites", <<>>),
   reading_history |-> Get(data, "reading_history", <<>>),
   created_at |-> Get(data, "created_at", now)]

\* Resource.to_dict
ResourceToDict(r) ==
  [id |-> r.id, title |-> r.title, author |-> r.author, subject |-> r.subject,
   language |-> r.language, file_path |-> r.file_path, category |-> r.category,
   description |-> r.description, download_count |-> r.download_count,
   view_count |-> r.view_count, added_date |-> r.added_date]

\* Resource.from_dict: six required keys, defaults for the rest
ResourceRequired == {"id", "title", "author", "subject", "language", "file_path"}

ResourceFromDict(data, now) ==
  [id |-> data.id, title |-> data.title, author |-> data.author,
   subject |-> data.subject, language |-> data.language,
   file_path |-> data.file_path,
   category |-> Get(data, "category", <<"C", "o", "r", "e">>),
   description |-> Get(data, "description", <<>>),
   download_count |-> Get(data, "download_count", 0),
   view_count |-> Get(data, "view_count", 0),
   added_date |-> Get(data, "added_date", now)]

\* ELibrary.save_data, the data it dumps: the whole state
SaveData(us, rs) ==
  [status |-> "json",
   users |-> [i \in 1..Len(us) |-> UserToDict(us[i])],
   resources |-> [i \in 1..Len(rs) |-> ResourceToDict(rs[i])]]

\* ELibrary.save_data, the file after it: open(data_file, 'w') and json.dump
\* overwrite the document; when open raises (disk "readonly") the document
\* stays, when the dump raises after open emptied the file (disk "full") what
\* is left is not JSON; save_data catches the exception and returns
Write(doc, us, rs) ==
  CASE disk = "ok" -> SaveData(us, rs)
    [] disk = "readonly" -> doc
    [] OTHER -> [status |-> "invalid"]

\* the records of a list up to the first one that lacks a required key
RECURSIVE GoodPrefix(_, _)
GoodPrefix(dicts, required) ==
  IF dicts = <<>> \/ ~(required \subseteq DOMAIN Head(dicts))
  THEN <<>>
  ELSE <<Head(dicts)>> \o GoodPrefix(Tail(dicts), required)

\* ELibrary.load_data: a missing file or invalid JSON leaves both dicts empty;
\* a KeyError in from_dict ends the load where it is raised, and what was
\* loaded before it stays
LoadData(doc, now) ==
  IF doc.status # "json"
  THEN [users |-> <<>>, resources |-> <<>>]
  ELSE LET gu == GoodPrefix(doc.users, UserRequired)
           gr == IF Len(gu) = Len(doc.users)
                 THEN GoodPrefix(doc.resources, ResourceRequired)
                 ELSE <<>>
       IN  [users |-> [i \in 1..Len(gu) |-> UserFromDict(gu[i], now)],
            resources |-> [i \in 1..Len(gr) |-> ResourceFromDict(gr[i], now)]]

\* ELibrary._create_default_admin: admin_exists
AdminExists(us) == \E i \in 1..Len(us) : us[i].role = "admin"

DefaultAdmin == NewUser("admin", "admin123", "admin@library.com", "admin")

\* ELibrary.__init__: load_data, then _create_default_admin (which saves only
\* when it created the admin)
Construct(doc) ==
  LET loaded == LoadData(doc, Now)
      us == IF AdminExists(loaded.users) THEN loaded.users
            ELSE PutUser(loaded.users, DefaultAdmin)
  IN  [users |-> us, resources |-> loaded.resources,
       document |-> IF AdminExists(loaded.users) THEN doc
                    ELSE SaveData(us, loaded.resources)]

-----------------------------------------------------------------------------
(* Text: a string is the list of its characters.                              *)

\* str.lower() on one character
LowerChar(c) ==
  CASE c = "A" -> "a" [] c = "B" -> "b" [] c = "C" -> "c" [] c = "M" -> "m"
    [] c = "E" -> "e" [] c = "S" -> "s"
    [] OTHER -> c

\* str.lower()
Lower(s) == [i \in 1..Len(s) |-> LowerChar(s[i])]

\* Python's  k in s  on strings
IsSubstring(k, s) ==
  \E i \in 0..(Len(s) - Len(k)) : SubSeq(s, i + 1, i + Len(k)) = k

\* urlparse(path): the model keeps a path as its parsed form
\* ELibrary._is_url: scheme and netloc both present
IsUrl(path) == path.scheme # "" /\ path.netloc # ""

-----------------------------------------------------------------------------
(* Operations of ELibrary. Each records its call and result in last.          *)

Result(op, args, ret, saved) ==
  [op |-> op, args |-> args, ret |-> ret, saved |-> saved]

\* register_user without its test of  username in self.users
RegisterUserOverwriting(username, password, email) ==
  /\ users' = PutUser(users, NewUser(username, password, email, "student"))
  /\ document' = Write(document, users', resources)
  /\ registered' = registered \cup {username}
  /\ last' = Result("register_user", <<username, password, email>>, TRUE, TRUE)
  /\ UNCHANGED <<resources, current_user, disk, variants>>

\* ELibrary.register_user
RegisterUser(username, password, email) ==
  IF username \in UserNames(users)
  THEN /\ last' = Result("register_user", <<username, password, email>>, FALSE, FALSE)
       /\ UNCHANGED <<users, resources, current_user, document, registered, disk, variants>>
  ELSE /\ users' = PutUser(users, NewUser(username, password, email, "student"))
       /\ document' = Write(document, users', resources)
       /\ registered' = registered \cup {username}
       /\ last' = Result("register_user", <<username, password, email>>, TRUE, TRUE)
       /\ UNCHANGED <<resources, current_user, disk, variants>>

\* the test of login without verify_password
LoginOkAnyPassword(username, password) == username \in UserNames(users)

\* ELibrary.login: current_user refers to the object stored under username
LoginOk(username, password) ==
  /\ username \in UserNames(users)
  /\ VerifyPassword(UserOf(users, username), password)

\* login that sets current_user to None when it fails
LoginClearingSession(username, password) ==
  /\ current_user' = IF LoginOk(username, password) THEN username ELSE None
  /\ last' = Result("login", <<username, password>>, LoginOk(username, password), FALSE)
  /\ UNCHANGED <<users, resources, document, registered, disk, variants>>

Login(username, password) ==
  /\ current_user' = IF LoginOk(username, password) THEN username ELSE current_user
  /\ last' = Result("login", <<username, password>>, LoginOk(username, password), FALSE)
  /\ UNCHANGED <<users, resources, document, registered, disk, variants>>

\* ELibrary.logout
Logout ==
  /\ current_user' = None
  /\ last' = Result("logout", <<>>, None, FALSE)
  /\ UNCHANGED <<users, resources, document, registered, disk, variants>>

\* ELibrary.add_resource; id is the value Resource._generate_id returned, a
\* digest of the clock cut to 8 hex digits
AddResource(id, title, author, subject, language, file_path, category, description) ==
  /\ resources' = PutResource(resources,
        NewResource(id, title, author, subject, language, file_path, category, description))
  /\ document' = Write(document, users, resources')
  /\ last' = Result("add_resource", <<title, author, subject, language, file_path,
                                      category, description>>, id, TRUE)
  /\ UNCHANGED <<users, current_user, registered, disk, variants>>

\* ELibrary.get_resources_by_category
ResourcesByCategory(rs, category) == SelectSeq(rs, LAMBDA r : r.category = category)

GetResourcesByCategory(category) ==
  /\ last' = Result("get_resources_by_category", <<category>>,
                    ResourcesByCategory(resources, category), FALSE)
  /\ UNCHANGED <<users, resources, current_user, document, registered, disk, variants>>

\* the test of search_resources with  and  between the four fields
MatchesEveryField(keyword, r) ==
  /\ IsSubstring(Lower(keyword), Lower(r.title))
  /\ IsSubstring(Lower(keyword), Lower(r.author))
  /\ IsSubstring(Lower(keyword), Lower(r.subject))
  /\ IsSubstring(Lower(keyword), Lower(r.language))

\* ELibrary.search_resources
Matches(keyword, r) ==
  \/ IsSubstring(Lower(keyword), Lower(r.title))
  \/ IsSubstring(Lower(keyword), Lower(r.author))
  \/ IsSubstring(Lower(keyword), Lower(r.subject))
  \/ IsSubstring(Lower(keyword), Lower(r.language))

SearchResults(rs, keyword) == SelectSeq(rs, LAMBDA r : Matches(keyword, r))

SearchResources(keyword) ==
  /\ last' = Result("search_resources", <<keyword>>, SearchResults(resources, keyword), FALSE)
  /\ UNCHANGED <<users, resources, current_user, document, registered, disk, variants>>

\* the history update without its test of  resource_id not in reading_history
RecordHistoryEveryAccess(us, cu, resource_id) ==
  IF cu # None
  THEN [us EXCEPT ![UserIndex(us, cu)].reading_history = Append(@, resource_id)]
  ELSE us

\* view_resource and download_resource, the history update:
\* if self.current_user: if resource_id not in reading_history: append
RecordHistory(us, cu, resource_id) ==
  IF cu # None /\ resource_id \notin Members(UserOf(us, cu).reading_history)
  THEN [us EXCEPT ![UserIndex(us, cu)].reading_history = Append(@, resource_id)]
  ELSE us

\* view_resource, after the save: what is opened and what is returned.
\* exists is os.path.exists(file_path); opened is whether webbrowser.open or
\* _open_file returned without raising
ViewOutcome(file_path, exists, opened) ==
  IF IsUrl(file_path)
  THEN IF opened THEN "Opening in your web browser" ELSE "Error opening URL"
  ELSE IF exists
       THEN IF opened THEN "Opening" ELSE "Error opening file"
       ELSE "File not found"

\* view_resource counting the view after the file or URL was opened
ViewResourceCountingOpened(resource_id, exists, opened) ==
  IF resource_id \in ResourceIds(resources)
  THEN LET outcome == ViewOutcome(ResourceOf(resources, resource_id).file_path, exists, opened)
           counted == outcome \in {"Opening in your web browser", "Opening"}
       IN  /\ ResourceOf(resources, resource_id).view_count < MaxCount
           /\ resources' = IF counted
                            THEN [resources EXCEPT
                                    ![IndexOf(resources, resource_id)].view_count = @ + 1]
                            ELSE resources
           /\ users' = RecordHistory(users, current_user, resource_id)
           /\ document' = Write(document, users', resources')
           /\ last' = Result("view_resource", <<resource_id>>, outcome, TRUE)
           /\ UNCHANGED <<current_user, registered, disk, variants>>
  ELSE /\ last' = Result("view_resource", <<resource_id>>, "Resource not found", FALSE)
       /\ UNCHANGED <<users, resources, current_user, document, registered, disk, variants>>

\* view_resource counting the view inside  if self.current_user
ViewResourceSessionsOnly(resource_id, exists, opened) ==
  IF resource_id \in ResourceIds(resources)
  THEN /\ ResourceOf(resources, resource_id).view_count < MaxCount
       /\ resources' = IF current_user # None
                        THEN [resources EXCEPT
                                ![IndexOf(resources, resource_id)].view_count = @ + 1]
                        ELSE resources
       /\ users' = RecordHistory(users, current_user, resource_id)
       /\ document' = Write(document, users', resources')
       /\ last' = Result("view_resource", <<resource_id>>,
                         ViewOutcome(ResourceOf(resources, resource_id).file_path, exists, opened),
                         TRUE)
       /\ UNCHANGED <<current_user, registered, disk, variants>>
  ELSE /\ last' = Result("view_resource", <<resource_id>>, "Resource not found", FALSE)
       /\ UNCHANGED <<users, resources, current_user, document, registered, disk, variants>>

\* ELibrary.view_resource
ViewResource(resource_id, exists, opened) ==
  IF resource_id \in ResourceIds(resources)
  THEN /\ ResourceOf(resources, resource_id).view_count < MaxCount
       /\ resources' = [resources EXCEPT ![IndexOf(resources, resource_id)].view_count = @ + 1]
       /\ users' = RecordHistory(users, current_user, resource_id)
       /\ document' = Write(document, users', resources')
       /\ last' = Result("view_resource", <<resource_id>>,
                         ViewOutcome(ResourceOf(resources, resource_id).file_path, exists, opened),
                         TRUE)
       /\ UNCHANGED <<current_user, registered, disk, variants>>
  ELSE /\ last' = Result("view_resource", <<resource_id>>, "Resource not found", FALSE)
       /\ UNCHANGED <<users, resources, current_user, document, registered, disk, variants>>

\* download_resource, after the save. made is whether the downloads directory
\* exists or os.makedirs created it (it raises otherwise, and nothing catches
\* it); fetched is whether urlretrieve or shutil.copy2 returned without raising
DownloadOutcome(file_path, made, exists, fetched) ==
  IF ~made THEN "OSError"
  ELSE IF IsUrl(file_path)
       THEN IF fetched THEN "Downloaded" ELSE "Error downloading from URL"
       ELSE IF exists
            THEN IF fetched THEN "Downloaded" ELSE "Error copying file"
            ELSE "File not found"

\* download_resource with save_data after the  if  instead of inside it
DownloadResourceSavingAlways(resource_id, made, exists, fetched) ==
  IF resource_id \in ResourceIds(resources)
  THEN /\ ResourceOf(resources, resource_id).download_count < MaxCount
       /\ resources' = [resources EXCEPT ![IndexOf(resources, resource_id)].download_count = @ + 1]
       /\ users' = RecordHistory(users, current_user, resource_id)
       /\ document' = Write(document, users', resources')
       /\ last' = Result("download_resource", <<resource_id>>,
                         DownloadOutcome(ResourceOf(resources, resource_id).file_path,
                                         made, exists, fetched),
                         TRUE)
       /\ UNCHANGED <<current_user, registered, disk, variants>>
  ELSE /\ document' = Write(document, users, resources)
       /\ last' = Result("download_resource", <<resource_id>>, "Resource not found", TRUE)
       /\ UNCHANGED <<users, resources, current_user, registered, disk, variants>>

\* ELibrary.download_resource
DownloadResource(resource_id, made, exists, fetched) ==
  IF resource_id \in ResourceIds(resources)
  THEN /\ ResourceOf(resources, resource_id).download_count < MaxCount
       /\ resources' = [resources EXCEPT ![IndexOf(resources, resource_id)].download_count = @ + 1]
       /\ users' = RecordHistory(users, current_user, resource_id)
       /\ document' = Write(document, users', resources')
       /\ last' = Result("download_resource", <<resource_id>>,
                         DownloadOutcome(ResourceOf(resources, resource_id).file_path,
                                         made, exists, fetched),
                         TRUE)
       /\ UNCHANGED <<current_user, registered, disk, variants>>
  ELSE /\ last' = Result("download_resource", <<resource_id>>, "Resource not found", FALSE)
       /\ UNCHANGED <<users, resources, current_user, document, registered, disk, variants>>

\* the tests of add_to_favorites without  resource_id not in favorites
CanAddFavoriteAgain(resource_id) ==
  /\ current_user # None
  /\ resource_id \in ResourceIds(resources)

\* the tests of add_to_favorites without  resource_id in self.resources
CanAddUnknownFavorite(resource_id) ==
  /\ current_user # None
  /\ resource_id \notin Members(UserOf(users, current_user).favorites)

\* ELibrary.add_to_favorites
CanAddFavorite(resource_id) ==
  /\ current_user # None
  /\ resource_id \in ResourceIds(resources)
  /\ resource_id \notin Members(UserOf(users, current_user).favorites)

AddToFavorites(resource_id) ==
  IF CanAddFavorite(resource_id)
  THEN /\ users' = [users EXCEPT ![UserIndex(users, current_user)].favorites =
                                    Append(@, resource_id)]
       /\ document' = Write(document, users', resources)
       /\ last' = Result("add_to_favorites", <<resource_id>>, TRUE, TRUE)
       /\ UNCHANGED <<resources, current_user, registered, disk, variants>>
  ELSE /\ last' = Result("add_to_favorites", <<resource_id>>, FALSE, FALSE)
       /\ UNCHANGED <<users, resources, current_user, document, registered, disk, variants>>

\* the favorites in catalog order, as StudentManager.get_favorites of
\* library.py lists them
ResolveInCatalogOrder(ids, rs) == SelectSeq(rs, LAMBDA r : r.id \in Members(ids))

\* ELibrary.get_user_favorites
RECURSIVE Resolve(_, _)
Resolve(ids, rs) ==
  IF ids = <<>> THEN <<>>
  ELSE (IF Head(ids) \in ResourceIds(rs) THEN <<ResourceOf(rs, Head(ids))>> ELSE <<>>)
       \o Resolve(Tail(ids), rs)

UserFavorites ==
  IF current_user = None THEN <<>>
  ELSE Resolve(UserOf(users, current_user).favorites, resources)

GetUserFavorites ==
  /\ last' = Result("get_user_favorites", <<>>, UserFavorites, FALSE)
  /\ UNCHANGED <<users, resources, current_user, document, registered, disk, variants>>

\* the admin dashboard is reached only with an admin logged in
AdminSession ==
  /\ current_user # None
  /\ UserOf(users, current_user).role = "admin"

\* remove_user without its test of  username == current_user.username
RemoveUserAnyone(username) ==
  /\ AdminSession
  /\ IF username \in UserNames(users)
     THEN /\ users' = DelUser(users, username)
          /\ document' = Write(document, users', resources)
          /\ last' = Result("remove_user", <<username>>, "removed", TRUE)
          /\ UNCHANGED <<resources, current_user, registered, disk, variants>>
     ELSE /\ last' = Result("remove_user", <<username>>, "User not found", FALSE)
          /\ UNCHANGED <<users, resources, current_user, document, registered, disk, variants>>

\* AdminInterface.remove_user
RemoveUser(username) ==
  /\ AdminSession
  /\ IF username \in UserNames(users) /\ username # UserOf(users, current_user).username
     THEN /\ users' = DelUser(users, username)
          /\ document' = Write(document, users', resources)
          /\ last' = Result("remove_user", <<username>>, "removed", TRUE)
          /\ UNCHANGED <<resources, current_user, registered, disk, variants>>
     ELSE /\ last' = Result("remove_user", <<username>>,
                            IF username \in UserNames(users)
                            THEN "Cannot remove currently logged in admin"
                            ELSE "User not found", FALSE)
          /\ UNCHANGED <<users, resources, current_user, document, registered, disk, variants>>

\* AdminInterface.add_new_admin, reached from the admin dashboard only
AddNewAdmin(username, password, email) ==
  /\ AdminSession
  /\ IF username \notin UserNames(users)
     THEN /\ users' = PutUser(users, NewUser(username, password, email, "admin"))
          /\ document' = Write(document, users', resources)
          /\ last' = Result("add_new_admin", <<username, password, email>>,
                            "Admin user created successfully!", TRUE)
          /\ UNCHANGED <<resources, current_user, registered, disk, variants>>
     ELSE /\ last' = Result("add_new_admin", <<username, password, email>>,
                            "Username already exists.", FALSE)
          /\ UNCHANGED <<users, resources, current_user, document, registered, disk, variants>>

\* urlparse("")
EmptyPath == [scheme |-> "", netloc |-> "", path |-> ""]

\* input(...) or resource.<field>: an empty input keeps the value
OrOld(input, old) == IF input = <<>> \/ input = EmptyPath THEN old ELSE input

\* edit_resource: the fields it assigns to the chosen resource
Edited(r, title, author, subject, language, file_path, description) ==
  [r EXCEPT !.title = OrOld(title, r.title), !.author = OrOld(author, r.author),
            !.subject = OrOld(subject, r.subject),
            !.language = OrOld(language, r.language),
            !.file_path = OrOld(file_path, r.file_path),
            !.description = OrOld(description, r.description)]

\* edit_resource without its call of save_data
EditResourceUnsaved(choice, title, author, subject, language, file_path, description) ==
  /\ AdminSession
  /\ IF resources = <<>>
     THEN /\ last' = Result("edit_resource", <<choice>>, "No resources available to edit.",
                            FALSE)
          /\ UNCHANGED <<users, resources, current_user, document, registered, disk, variants>>
     ELSE IF 1 <= choice /\ choice <= Len(resources)
          THEN /\ resources' = [resources EXCEPT ![choice] =
                    Edited(@, title, author, subject, language, file_path, description)]
               /\ last' = Result("edit_resource",
                                 <<choice, title, author, subject, language, file_path,
                                   description>>,
                                 "Resource updated successfully!", FALSE)
               /\ UNCHANGED <<users, current_user, document, registered, disk, variants>>
          ELSE /\ last' = Result("edit_resource", <<choice>>, "Invalid selection.", FALSE)
               /\ UNCHANGED <<users, resources, current_user, document, registered, disk, variants>>

\* AdminInterface.edit_resource, reached from the admin dashboard only; choice
\* is the number typed at the list of resources
EditResource(choice, title, author, subject, language, file_path, description) ==
  /\ AdminSession
  /\ IF resources = <<>>
     THEN /\ last' = Result("edit_resource", <<choice>>, "No resources available to edit.",
                            FALSE)
          /\ UNCHANGED <<users, resources, current_user, document, registered, disk, variants>>
     ELSE IF 1 <= choice /\ choice <= Len(resources)
          THEN /\ resources' = [resources EXCEPT ![choice] =
                    Edited(@, title, author, subject, language, file_path, description)]
               /\ document' = Write(document, users, resources')
               /\ last' = Result("edit_resource",
                                 <<choice, title, author, subject, language, file_path,
                                   description>>,
                                 "Resource updated successfully!", TRUE)
               /\ UNCHANGED <<users, current_user, registered, disk, variants>>
          ELSE /\ last' = Result("edit_resource", <<choice>>, "Invalid selection.", FALSE)
               /\ UNCHANGED <<users, resources, current_user, document, registered, disk, variants>>

\* the file system between two operations: writable, refusing to open the
\* data file for writing, or out of space
DiskChanges(state) ==
  /\ disk # state
  /\ disk' = state
  /\ last' = Result("disk", <<state>>, None, FALSE)
  /\ UNCHANGED <<users, resources, current_user, document, registered, variants>>

\* get_usage_report: the  [:5]  of both lists
TopCount == 5

\* list[:n]
Take(list, n) == SubSeq(list, 1, IF Len(list) < n THEN Len(list) ELSE n)

\* a descending sort that puts a resource before the earlier ones of the
\* same count, as  sorted(list, key=...)[::-1]  does
RECURSIVE SortedTiesReversed(_, _)
SortedTiesReversed(list, key) ==
  IF list = <<>> THEN <<>>
  ELSE LET r == list[Len(list)]
           rest == SortedTiesReversed(SubSeq(list, 1, Len(list) - 1), key)
           k == Cardinality({i \in 1..Len(rest) : rest[i][key] > r[key]})
       IN  SubSeq(rest, 1, k) \o <<r>> \o SubSeq(rest, k + 1, Len(rest))

\* sorted(list, key=lambda x: x.<key>, reverse=True): Python's sort is stable,
\* also with reverse=True, so a resource comes after the earlier ones of the
\* same or a higher count
RECURSIVE SortedDescending(_, _)
SortedDescending(list, key) ==
  IF list = <<>> THEN <<>>
  ELSE LET r == list[Len(list)]
           rest == SortedDescending(SubSeq(list, 1, Len(list) - 1), key)
           k == Cardinality({i \in 1..Len(rest) : rest[i][key] >= r[key]})
       IN  SubSeq(rest, 1, k) \o <<r>> \o SubSeq(rest, k + 1, Len(rest))

\* get_usage_report counting every user
UsageReportCountingAdmins(us, rs) ==
  [total_resources |-> Len(rs),
   total_users |-> Len(us),
   most_downloaded |-> Take(SortedDescending(rs, "download_count"), TopCount),
   most_viewed |-> Take(SortedDescending(rs, "view_count"), TopCount)]

\* ELibrary.get_usage_report
UsageReport(us, rs) ==
  [total_resources |-> Len(rs),
   total_users |-> Cardinality({i \in 1..Len(us) : us[i].role = "student"}),
   most_downloaded |-> Take(SortedDescending(rs, "download_count"), TopCount),
   most_viewed |-> Take(SortedDescending(rs, "view_count"), TopCount)]

GetUsageReport ==
  /\ last' = Result("get_usage_report", <<>>, UsageReport(users, resources), FALSE)
  /\ UNCHANGED <<users, resources, current_user, document, registered, disk, variants>>

-----------------------------------------------------------------------------
(* The integrated variant of src/library.py. Its state is in two files, read  *)
(* and rewritten by every operation: lib.students is the list "students" of   *)
(* the students file, lib.books and lib.next_book_id are the books file. The  *)
(* managers keep the record they loaded at login: lib.current_student and     *)
(* lib.current_admin. The usage log, which nothing reads back, is left out.   *)

\* add_book and register_student are explored while the files hold fewer
\* than MaxBooks books and MaxStudents users
MaxBooks == 7

MaxStudents == 3

\* StorageManager.initialize_files: the sample data written when no file exists
SampleBook(book_id, title, author, category, total, available, borrowed_by) ==
  [book_id |-> book_id, title |-> title, author |-> author, category |-> category,
   total_copies |-> total, available_copies |-> available, borrowed_by |-> borrowed_by]

SampleBooks ==
  <<SampleBook(1, "Python Programming", "John Smith", "Programming", 3, 3, <<>>),
    SampleBook(2, "Data Structures", "Jane Doe", "Computer Science", 2, 2, <<>>),
    SampleBook(3, "Web Development", "Mike Johnson", "Programming", 2, 1, <<"student1">>),
    SampleBook(4, "Machine Learning", "Sarah Wilson", "AI/ML", 1, 1, <<>>),
    SampleBook(5, "Database Systems", "Robert Brown", "Computer Science", 2, 2, <<>>)>>

SampleAdmin ==
  [student_id |-> "admin", name |-> "System Administrator", email |-> "admin@library.com",
   user_type |-> "admin", borrowed_books |-> <<>>, favorites |-> <<>>]

InitializeFiles ==
  [students |-> <<SampleAdmin>>, books |-> SampleBooks, next_book_id |-> 6,
   current_student |-> <<>>, current_admin |-> <<>>]

\* str.strip() on the names and titles of the model: the empty string and
\* the single space become empty, the others have no blank at either end
Strip(text) == IF text = " " THEN "" ELSE text

\* StorageManager.save_json on a file: the new content when the write goes
\* through; the old content when open raises; a file that load_json reads
\* as {} when the dump raises after open emptied the file
SaveJson(old, new, empty) ==
  CASE disk = "ok" -> new
    [] disk = "readonly" -> old
    [] OTHER -> empty

\* next((x for x in list if test), None): a record that may be None is held
\* as a list, empty for None and of the one record otherwise
FirstWith(list, key, value) ==
  IF \E i \in 1..Len(list) : list[i][key] = value
  THEN <<list[CHOOSE i \in 1..Len(list) :
                list[i][key] = value /\ \A j \in 1..(i - 1) : list[j][key] # value]>>
  ELSE <<>>

\* StorageManager.update_student: the first record with the student_id is
\* replaced by the record given, whole
UpdateStudent(students, updated) ==
  LET hit == {i \in 1..Len(students) : students[i].student_id = updated.student_id}
  IN  IF hit = {} THEN students
      ELSE SaveJson(students,
                    [students EXCEPT ![CHOOSE i \in hit : \A j \in hit : i <= j] = updated],
                    <<>>)

\* the books file, and what load_json makes of it when it is not JSON:
\* load_books gets no book and get_next_book_id its default 1
BooksFile(l) == [books |-> l.books, next_book_id |-> l.next_book_id]

EmptyBooksFile == [books |-> <<>>, next_book_id |-> 1]

\* save_book without its increment of next_book_id
SaveBookKeepingNext(file, book) ==
  SaveJson(file, [file EXCEPT !.books = Append(@, book)], EmptyBooksFile)

\* StorageManager.save_book
SaveBook(file, book) ==
  SaveJson(file,
           [books |-> Append(file.books, book), next_book_id |-> file.next_book_id + 1],
           EmptyBooksFile)

\* StorageManager.update_book
UpdateBook(file, updated) ==
  LET hit == {i \in 1..Len(file.books) : file.books[i].book_id = updated.book_id}
  IN  IF hit = {} THEN file
      ELSE SaveJson(file,
                    [file EXCEPT !.books[CHOOSE i \in hit : \A j \in hit : i <= j] = updated],
                    EmptyBooksFile)

\* list.remove(x): the first occurrence goes
RemoveFirst(list, x) ==
  LET k == CHOOSE i \in 1..Len(list) : list[i] = x /\ \A j \in 1..(i - 1) : list[j] # x
  IN  SubSeq(list, 1, k - 1) \o SubSeq(list, k + 1, Len(list))

\* the value a call returns and whether it changed a file, kept in last
LibResult(op, args, ret) ==
  Result(op, args, ret, lib'.students # lib.students \/ BooksFile(lib') # BooksFile(lib))

\* StudentManager.register_student
RegisterStudent(student_id, name, email) ==
  /\ Len(lib.students) < MaxStudents
  /\ IF Strip(student_id) = "" \/ Strip(name) = ""
     THEN /\ lib' = lib
          /\ last' = LibResult("register_student", <<student_id, name, email>>,
                               <<FALSE, "Student ID and name cannot be empty">>)
     ELSE IF \E i \in 1..Len(lib.students) : lib.students[i].student_id = student_id
          THEN /\ lib' = lib
               /\ last' = LibResult("register_student", <<student_id, name, email>>,
                                    <<FALSE, "already exists">>)
          ELSE /\ lib' = [lib EXCEPT !.students =
                            SaveJson(@, Append(@, [student_id |-> student_id, name |-> name,
                                                   email |-> email, user_type |-> "student",
                                                   borrowed_books |-> <<>>,
                                                   favorites |-> <<>>]), <<>>)]
               /\ last' = LibResult("register_student", <<student_id, name, email>>,
                                    IF disk = "ok" THEN <<TRUE, "Registration successful">>
                                    ELSE <<FALSE, "Registration failed">>)
  /\ UNCHANGED <<elibrary, sm, peer>>

\* StudentManager.login_student: the record loaded from the file is kept
LoginStudent(student_id) ==
  LET student == FirstWith(lib.students, "student_id", student_id)
  IN  /\ lib' = IF student # <<>> THEN [lib EXCEPT !.current_student = student] ELSE lib
      /\ last' = Result("login_student", <<student_id>>,
                        IF student # <<>> THEN <<TRUE, "Welcome back">>
                        ELSE <<FALSE, "Student ID not found">>, FALSE)
      /\ UNCHANGED <<elibrary, sm, peer>>

\* StudentManager.logout_student
LogoutStudent ==
  /\ lib' = [lib EXCEPT !.current_student = <<>>]
  /\ last' = Result("logout_student", <<>>,
                    IF lib.current_student # <<>> THEN "Goodbye" ELSE "No student logged in",
                    FALSE)
  /\ UNCHANGED <<elibrary, sm, peer>>

\* StudentManager.add_to_favorites: the record kept since login gets the id
\* and is written over the stored one
StudentAddToFavorites(book_id) ==
  /\ IF lib.current_student = <<>>
     THEN /\ lib' = lib
          /\ last' = LibResult("add_to_favorites", <<book_id>>, <<FALSE, "Please login first">>)
     ELSE IF \A i \in 1..Len(lib.books) : lib.books[i].book_id # book_id
          THEN /\ lib' = lib
               /\ last' = LibResult("add_to_favorites", <<book_id>>, <<FALSE, "Book not found">>)
          ELSE IF book_id \in Members(lib.current_student[1].favorites)
               THEN /\ lib' = lib
                    /\ last' = LibResult("add_to_favorites", <<book_id>>,
                                         <<FALSE, "Book already in favorites">>)
               ELSE LET student == [lib.current_student[1] EXCEPT
                                      !.favorites = Append(@, book_id)]
                    IN  /\ lib' = [lib EXCEPT !.current_student = <<student>>,
                                              !.students = UpdateStudent(@, student)]
                        /\ last' = LibResult("add_to_favorites", <<book_id>>,
                                             <<TRUE, "added to favorites">>)
  /\ UNCHANGED <<elibrary, sm, peer>>

\* remove_from_favorites without writing the record to the file
StudentRemoveUnsaved(book_id) ==
  /\ IF lib.current_student = <<>>
     THEN /\ lib' = lib
          /\ last' = LibResult("remove_from_favorites", <<book_id>>,
                               <<FALSE, "Please login first">>)
     ELSE IF book_id \notin Members(lib.current_student[1].favorites)
          THEN /\ lib' = lib
               /\ last' = LibResult("remove_from_favorites", <<book_id>>,
                                    <<FALSE, "Book not in favorites">>)
          ELSE LET student == [lib.current_student[1] EXCEPT
                                 !.favorites = RemoveFirst(@, book_id)]
               IN  /\ lib' = [lib EXCEPT !.current_student = <<student>>]
                   /\ last' = LibResult("remove_from_favorites", <<book_id>>,
                                        <<TRUE, "removed from favorites">>)
  /\ UNCHANGED <<elibrary, sm, peer>>

\* StudentManager.remove_from_favorites: a book that is not in the books
\* file only changes the title in the message
StudentRemoveFromFavorites(book_id) ==
  /\ IF lib.current_student = <<>>
     THEN /\ lib' = lib
          /\ last' = LibResult("remove_from_favorites", <<book_id>>,
                               <<FALSE, "Please login first">>)
     ELSE IF book_id \notin Members(lib.current_student[1].favorites)
          THEN /\ lib' = lib
               /\ last' = LibResult("remove_from_favorites", <<book_id>>,
                                    <<FALSE, "Book not in favorites">>)
          ELSE LET student == [lib.current_student[1] EXCEPT
                                 !.favorites = RemoveFirst(@, book_id)]
               IN  /\ lib' = [lib EXCEPT !.current_student = <<student>>,
                                         !.students = UpdateStudent(@, student)]
                   /\ last' = LibResult("remove_from_favorites", <<book_id>>,
                                        <<TRUE, "removed from favorites">>)
  /\ UNCHANGED <<elibrary, sm, peer>>

\* login_admin without its test of user_type
LoginAdminAnyUser(admin_id) ==
  LET admin == FirstWith(lib.students, "student_id", admin_id)
  IN  /\ lib' = IF admin # <<>> THEN [lib EXCEPT !.current_admin = admin] ELSE lib
      /\ last' = Result("login_admin", <<admin_id>>,
                        IF admin # <<>> THEN <<TRUE, "Admin login successful">>
                        ELSE <<FALSE, "Admin not found">>, FALSE)
      /\ UNCHANGED <<elibrary, sm, peer>>

\* AdminManager.login_admin
LoginAdmin(admin_id) ==
  LET admin == FirstWith(SelectSeq(lib.students, LAMBDA x : x.user_type = "admin"),
                         "student_id", admin_id)
  IN  /\ lib' = IF admin # <<>> THEN [lib EXCEPT !.current_admin = admin] ELSE lib
      /\ last' = Result("login_admin", <<admin_id>>,
                        IF admin # <<>> THEN <<TRUE, "Admin login successful">>
                        ELSE <<FALSE, "Admin not found">>, FALSE)
      /\ UNCHANGED <<elibrary, sm, peer>>

\* AdminManager.add_book
AddBook(title, author, category, copies) ==
  /\ Len(lib.books) < MaxBooks
  /\ IF lib.current_admin = <<>>
     THEN /\ lib' = lib
          /\ last' = LibResult("add_book", <<title, author, category, copies>>,
                               <<FALSE, "Admin login required">>)
     ELSE IF Strip(title) = "" \/ Strip(author) = "" \/ Strip(category) = "" \/ copies < 1
          THEN /\ lib' = lib
               /\ last' = LibResult("add_book", <<title, author, category, copies>>,
                                    <<FALSE, "Invalid book data">>)
          ELSE LET file == SaveBook(BooksFile(lib),
                                    [book_id |-> lib.next_book_id, title |-> title,
                                     author |-> author, category |-> category,
                                     total_copies |-> copies, available_copies |-> copies,
                                     borrowed_by |-> <<>>])
               IN  /\ lib' = [lib EXCEPT !.books = file.books,
                                         !.next_book_id = file.next_book_id]
                   /\ last' = LibResult("add_book", <<title, author, category, copies>>,
                                        IF disk = "ok" THEN <<TRUE, "added", lib.next_book_id>>
                                        ELSE <<FALSE, "Failed to add book">>)
  /\ UNCHANGED <<elibrary, sm, peer>>

\* if value: a string that is given and not empty
Given(value) == value # None /\ value # ""

\* max(0, n)
Max0(n) == IF n < 0 THEN 0 ELSE n

\* edit_book without its adjustment of available_copies
EditedBookKeepingAvailable(book, title, author, category, total_copies) ==
  [book EXCEPT
     !.title = IF Given(title) THEN title ELSE @,
     !.author = IF Given(author) THEN author ELSE @,
     !.category = IF Given(category) THEN category ELSE @,
     !.total_copies = IF total_copies # <<>> THEN total_copies[1] ELSE @]

\* edit_book, the fields it assigns; total_copies is a list, empty for None
EditedBook(book, title, author, category, total_copies) ==
  [book EXCEPT
     !.title = IF Given(title) THEN title ELSE @,
     !.author = IF Given(author) THEN author ELSE @,
     !.category = IF Given(category) THEN category ELSE @,
     !.total_copies = IF total_copies # <<>> THEN total_copies[1] ELSE @,
     !.available_copies =
        IF total_copies # <<>>
        THEN Max0(total_copies[1] - (book.total_copies - book.available_copies))
        ELSE @]

\* AdminManager.edit_book
EditBook(book_id, title, author, category, total_copies) ==
  LET book == FirstWith(lib.books, "book_id", book_id)
      args == <<book_id, title, author, category, total_copies>>
  IN  /\ IF lib.current_admin = <<>>
         THEN /\ lib' = lib
              /\ last' = LibResult("edit_book", args, <<FALSE, "Admin login required">>)
         ELSE IF book = <<>>
              THEN /\ lib' = lib
                   /\ last' = LibResult("edit_book", args, <<FALSE, "Book not found">>)
              ELSE LET file == UpdateBook(BooksFile(lib),
                                 EditedBook(book[1], title, author, category, total_copies))
                   IN  /\ lib' = [lib EXCEPT !.books = file.books,
                                             !.next_book_id = file.next_book_id]
                       /\ last' = LibResult("edit_book", args,
                                            IF disk = "ok" THEN <<TRUE, "updated successfully">>
                                            ELSE <<FALSE, "Failed to update book">>)
      /\ UNCHANGED <<elibrary, sm, peer>>

\* a record with the key status set: user["status"] = value
WithStatus(user, value) ==
  [k \in DOMAIN user \cup {"status"} |-> IF k = "status" THEN value ELSE user[k]]

\* AdminManager.manage_user
ManageUser(user_id, action) ==
  LET user == FirstWith(lib.students, "student_id", user_id)
  IN  /\ IF lib.current_admin = <<>>
         THEN /\ lib' = lib
              /\ last' = LibResult("manage_user", <<user_id, action>>,
                                   <<FALSE, "Admin login required">>)
         ELSE IF user = <<>>
              THEN /\ lib' = lib
                   /\ last' = LibResult("manage_user", <<user_id, action>>,
                                        <<FALSE, "User not found">>)
              ELSE IF action \notin {"activate", "deactivate"}
                   THEN /\ lib' = lib
                        /\ last' = LibResult("manage_user", <<user_id, action>>,
                                             <<FALSE, "Invalid action">>)
                   ELSE /\ lib' = [lib EXCEPT !.students =
                                     UpdateStudent(@, WithStatus(user[1],
                                       IF action = "activate" THEN "active" ELSE "inactive"))]
                        /\ last' = LibResult("manage_user", <<user_id, action>>,
                                             IF disk = "ok" THEN <<TRUE, action>>
                                             ELSE <<FALSE, "Failed to update user">>)
      /\ UNCHANGED <<elibrary, sm, peer>>

-----------------------------------------------------------------------------
(* The StudentManager of src/student.py: sm.students is its dict of Student   *)
(* objects, sm.current_student the student_id of the object logged in,        *)
(* sm.books_data the books read from the books file at construction, which    *)
(* this program never writes, and sm.data_file the students file.             *)

\* Student.to_dict, without registration_date, which no operation reads
StudentToDict(student) ==
  [student_id |-> student.student_id, name |-> student.name, email |-> student.email,
   borrowed_books |-> student.borrowed_books, favorites |-> student.favorites]

\* Student.from_dict
StudentFromDict(data) ==
  [student_id |-> data.student_id, name |-> data.name, email |-> Get(data, "email", ""),
   borrowed_books |-> Get(data, "borrowed_books", <<>>),
   favorites |-> Get(data, "favorites", <<>>), is_logged_in |-> FALSE]

\* StudentManager.save_student_data
SaveStudentData(students) == [i \in 1..Len(students) |-> StudentToDict(students[i])]

\* StudentManager.__init__: load_student_data and load_books_data, from
\* files that hold the lists students and books
StudentManagerInit(students_file, books_file) ==
  [students |-> [i \in 1..Len(students_file) |-> StudentFromDict(students_file[i])],
   current_student |-> None,
   books_data |-> books_file,
   data_file |-> students_file]

\* self.current_student, the object in self.students
CurrentStudent == CHOOSE x \in Members(sm.students) : x.student_id = sm.current_student

\* sm.students with the object of student_id changed to student
WithStudent(students, student) ==
  [i \in 1..Len(students) |->
     IF students[i].student_id = student.student_id THEN student ELSE students[i]]

\* What a call of the StudentManager gave: the sequence of the one value it
\* returned, or the empty sequence when it raised KeyError
Returned(value) == <<value>>

KeyError == <<>>

SmResult(op, args, ret) == Result(op, args, ret, sm'.data_file # sm.data_file)

\* StudentManager.register_student
SmRegisterStudent(student_id, name, email) ==
  /\ Len(sm.students) < MaxStudents
  /\ IF \/ \E x \in Members(sm.students) : x.student_id = student_id
        \/ Strip(student_id) = "" \/ Strip(name) = ""
     THEN sm' = sm
     ELSE LET students == Append(sm.students,
                                 [student_id |-> student_id, name |-> name, email |-> email,
                                  borrowed_books |-> <<>>, favorites |-> <<>>,
                                  is_logged_in |-> FALSE])
          IN  sm' = [sm EXCEPT !.students = students,
                               !.data_file = SaveStudentData(students)]
  /\ last' = SmResult("sm_register_student", <<student_id, name, email>>, Returned(sm' # sm))
  /\ UNCHANGED <<elibrary, lib, peer>>

\* StudentManager.login_student
SmLoginStudent(student_id) ==
  /\ IF \E x \in Members(sm.students) : x.student_id = student_id
     THEN sm' = [sm EXCEPT
                   !.current_student = student_id,
                   !.students = [i \in 1..Len(@) |->
                                   IF @[i].student_id = student_id
                                   THEN [@[i] EXCEPT !.is_logged_in = TRUE] ELSE @[i]]]
     ELSE sm' = sm
  /\ last' = SmResult("sm_login_student", <<student_id>>,
                      Returned(\E x \in Members(sm.students) : x.student_id = student_id))
  /\ UNCHANGED <<elibrary, lib, peer>>

\* StudentManager.logout_student
SmLogoutStudent ==
  /\ IF sm.current_student # None
     THEN sm' = [sm EXCEPT
                   !.current_student = None,
                   !.students = WithStudent(@, [CurrentStudent EXCEPT !.is_logged_in = FALSE])]
     ELSE sm' = sm
  /\ last' = SmResult("sm_logout_student", <<>>, Returned(None))
  /\ UNCHANGED <<elibrary, lib, peer>>

\* StudentManager.add_to_favorites
SmAddToFavorites(book_id) ==
  /\ IF \/ sm.current_student = None
        \/ \A b \in Members(sm.books_data) : b.book_id # book_id
        \/ book_id \in Members(CurrentStudent.favorites)
     THEN sm' = sm
     ELSE LET students == WithStudent(sm.students,
                            [CurrentStudent EXCEPT !.favorites = Append(@, book_id)])
          IN  sm' = [sm EXCEPT !.students = students,
                               !.data_file = SaveStudentData(students)]
  /\ last' = SmResult("sm_add_to_favorites", <<book_id>>, Returned(sm' # sm))
  /\ UNCHANGED <<elibrary, lib, peer>>

\* StudentManager.remove_from_favorites: after the save it reads
\* self.books_data[book_id]['title'], which raises KeyError for an id that
\* is not a key of books_data; nothing catches it
SmRemoveFromFavorites(book_id) ==
  /\ IF sm.current_student = None
     THEN /\ sm' = sm
          /\ last' = SmResult("sm_remove_from_favorites", <<book_id>>, Returned(FALSE))
     ELSE IF book_id \notin Members(CurrentStudent.favorites)
          THEN /\ sm' = sm
               /\ last' = SmResult("sm_remove_from_favorites", <<book_id>>, Returned(FALSE))
          ELSE LET students == WithStudent(sm.students,
                                 [CurrentStudent EXCEPT !.favorites = RemoveFirst(@, book_id)])
               IN  /\ sm' = [sm EXCEPT !.students = students,
                                       !.data_file = SaveStudentData(students)]
                   /\ last' = SmResult("sm_remove_from_favorites", <<book_id>>,
                                       IF \E b \in Members(sm.books_data) : b.book_id = book_id
                                       THEN Returned(TRUE) ELSE KeyError)
  /\ UNCHANGED <<elibrary, lib, peer>>

-----------------------------------------------------------------------------
(* A second process that runs ELibrary on the same data file: peer.users and  *)
(* peer.resources are its dicts, loaded when it started.                      *)

\* before the second process starts
NoPeer == [running |-> FALSE, users |-> <<>>, resources |-> <<>>]

\* ELibrary.__init__ in the second process
PeerStarts ==
  /\ ~peer.running
  /\ peer' = [running |-> TRUE, users |-> Construct(document).users,
              resources |-> Construct(document).resources]
  /\ document' = Construct(document).document
  /\ last' = Result("peer_init", <<>>, None, document' # document)
  /\ UNCHANGED <<users, resources, current_user, disk, registered, lib, sm>>

\* the second process ends
PeerExits ==
  /\ peer.running
  /\ peer' = NoPeer
  /\ last' = Result("peer_exit", <<>>, None, FALSE)
  /\ UNCHANGED <<elibrary, lib, sm>>

\* register_user that reads the data file again and adds the user to it
PeerRegisterUserMerging(username, password, email) ==
  /\ peer.running
  /\ IF username \in UserNames(peer.users)
     THEN /\ last' = Result("peer_register_user", <<username, password, email>>, FALSE, FALSE)
          /\ UNCHANGED <<elibrary, variants>>
     ELSE /\ peer' = [peer EXCEPT !.users = PutUser(@, NewUser(username, password, email,
                                                               "student"))]
          /\ document' = Write(document,
                               PutUser(LoadData(document, Now).users,
                                       NewUser(username, password, email, "student")),
                               LoadData(document, Now).resources)
          /\ last' = Result("peer_register_user", <<username, password, email>>, TRUE, TRUE)
          /\ UNCHANGED <<users, resources, current_user, disk, registered, lib, sm>>

\* ELibrary.register_user in the second process: save_data writes the data
\* file from the dicts of the process that calls it
PeerRegisterUser(username, password, email) ==
  /\ peer.running
  /\ IF username \in UserNames(peer.users)
     THEN /\ last' = Result("peer_register_user", <<username, password, email>>, FALSE, FALSE)
          /\ UNCHANGED <<elibrary, variants>>
     ELSE /\ peer' = [peer EXCEPT !.users = PutUser(@, NewUser(username, password, email,
                                                               "student"))]
          /\ document' = Write(document, peer'.users, peer.resources)
          /\ last' = Result("peer_register_user", <<username, password, email>>, TRUE, TRUE)
          /\ UNCHANGED <<users, resources, current_user, disk, registered, lib, sm>>

-----------------------------------------------------------------------------
(* Inputs.                                                                    *)

Usernames == {"admin", "alice", "bob"}

Passwords == {"admin123", "pw1", "pw2"}

Emails == {"", "a@x"}

\* "Math", "Ama" and "EN" as titles, authors, subjects and languages
Math == <<"M", "a", "t", "h">>

Ama == <<"A", "m", "a">>

En == <<"E", "N">>

\* a URL and a local path, as urlparse splits them
UrlPath == [scheme |-> "https", netloc |-> "host", path |-> "/b.pdf"]

LocalPath == [scheme |-> "", netloc |-> "", path |-> "/tmp/b.pdf"]

FilePaths == {UrlPath, LocalPath}

\* self.categories[0], also the default of Resource.__init__ and from_dict
CoreSubjects == <<"C", "o", "r", "e">>

\* self.categories[1], and a category that is not in self.categories
Storybooks == <<"S", "t", "o", "r", "y">>

Misc == <<"M", "i", "s", "c">>

\* a resource as the catalog flow adds it
Book(id, file_path) == NewResource(id, Math, Ama, Math, En, file_path, CoreSubjects, <<>>)

\* The data file found at startup: none; or one written by an earlier run,
\* in which alice has resources r2 and r1 as favorites and the record of
\* resource r2 has lost its title
EarlierRun ==
  [status |-> "json",
   users |-> <<UserToDict(DefaultAdmin),
               UserToDict([NewUser("alice", "pw1", "", "student")
                             EXCEPT !.favorites = <<"r2", "r1">>])>>,
   resources |-> <<ResourceToDict(Book("r1", LocalPath)),
                   [id |-> "r2", author |-> Ama]>>]

StartDocuments == {[status |-> "missing"], EarlierRun}

\* A data file that is not valid JSON, and one in which the record of the
\* third user has lost its password
NotJson == [status |-> "invalid"]

LostPassword ==
  [status |-> "json",
   users |-> <<UserToDict(DefaultAdmin), UserToDict(NewUser("alice", "pw1", "", "student")),
               [username |-> "bob", role |-> "student"]>>,
   resources |-> <<ResourceToDict(Book("r1", LocalPath))>>]

\* Data files without the user "admin": one that holds the student alice and
\* no admin, one in which bob is the only admin
StudentsOnly == SaveData(<<NewUser("alice", "pw1", "", "student")>>, <<>>)

OtherAdmin ==
  SaveData(<<NewUser("alice", "pw1", "", "student"), NewUser("bob", "pw1", "", "admin")>>,
           <<>>)

\* The data file of an earlier run with a catalog of n resources, of which r2
\* was downloaded once and r5 downloaded twice and viewed once
ShelfIds == <<"r1", "r2", "r3", "r4", "r5", "r6">>

Shelf(n) ==
  SaveData(<<DefaultAdmin>>,
           [i \in 1..n |->
              [Book(ShelfIds[i], LocalPath) EXCEPT
                 !.download_count = IF i = 2 THEN 1 ELSE IF i = 5 THEN 2 ELSE 0,
                 !.view_count = IF i = 5 THEN 1 ELSE 0]])

-----------------------------------------------------------------------------
(* Specifications. Every one runs the same operations from the state after   *)
(* ELibrary() and differs in the inputs it draws.                             *)

\* the state after ELibrary.__init__, for a data file among docs; last holds
\* the file found and whether _create_default_admin wrote it
InitFrom(docs) ==
  \E doc \in docs :
    /\ users = Construct(doc).users
    /\ resources = Construct(doc).resources
    /\ document = Construct(doc).document
    /\ current_user = None
    /\ disk = "ok"
    /\ registered = {}
    /\ lib = InitializeFiles
    /\ sm = StudentManagerInit(<<>>, <<>>)
    /\ peer = NoPeer
    /\ last = Result("init", <<doc>>, None, ~AdminExists(LoadData(doc, Now).users))

Init == InitFrom(StartDocuments)

InitFresh == InitFrom({[status |-> "missing"]})

\* logins of the catalog specifications: the admin, alice, and a wrong password
Logins == {<<"admin", "admin123">>, <<"alice", "pw1">>, <<"alice", "pw2">>}

\* Favorites: two users, every id as a favorite, resource r1 viewed and
\* downloaded, its file missing
Next ==
  \/ RegisterUser("alice", "pw1", "")
  \/ \E l \in Logins : Login(l[1], l[2])
  \/ Logout
  \/ \E id \in Ids : AddResource(id, Math, Ama, Math, En, LocalPath, CoreSubjects, <<>>)
  \/ ViewResource("r1", FALSE, FALSE)
  \/ DownloadResource("r1", TRUE, FALSE, FALSE)
  \/ \E id \in Ids : AddToFavorites(id)
  \/ GetUserFavorites

Spec == Init /\ [][Next]_vars

\* Accounts: registration, login, logout and the admin's removal of users
NextAccounts ==
  \/ \E u \in {"alice", "bob"}, p \in {"pw1", "pw2"}, e \in Emails : RegisterUser(u, p, e)
  \/ \E u \in Usernames, p \in Passwords : Login(u, p)
  \/ Logout
  \/ \E u \in Usernames : RemoveUser(u)

SpecAccounts == Init /\ [][NextAccounts]_vars

\* Usage: views and downloads of every resource, URL or local file, by the
\* admin and by guests
NextUsage ==
  \/ \E p \in {"admin123", "pw1"} : Login("admin", p)
  \/ Logout
  \/ \E id \in Ids, fp \in FilePaths :
       AddResource(id, Math, Ama, Math, En, fp, CoreSubjects, <<>>)
  \/ \E id \in Ids, exists \in BOOLEAN, opened \in BOOLEAN :
       ViewResource(id, exists, opened)
  \/ \E id \in Ids, made \in BOOLEAN, exists \in BOOLEAN, fetched \in BOOLEAN :
       DownloadResource(id, made, exists, fetched)

SpecUsage == InitFresh /\ [][NextUsage]_vars

\* History: views and downloads of every resource, its file missing, by two
\* users and by guests; the data file holds the admin and alice
TwoUsers == SaveData(<<DefaultAdmin, NewUser("alice", "pw1", "", "student")>>, <<>>)

NextHistory ==
  \/ \E l \in Logins : Login(l[1], l[2])
  \/ Logout
  \/ \E id \in Ids : AddResource(id, Math, Ama, Math, En, LocalPath, CoreSubjects, <<>>)
  \/ \E id \in Ids : ViewResource(id, FALSE, FALSE)
  \/ \E id \in Ids : DownloadResource(id, TRUE, FALSE, FALSE)

SpecHistory == InitFrom({TwoUsers}) /\ [][NextHistory]_vars

\* Search: catalogs whose resources differ in every searched field
Keywords == {<<>>, <<"m", "a">>, <<"M", "A">>, <<"E", "n">>, <<"a", "t", "h">>, <<"x">>}

NextSearch ==
  \/ \E id \in Ids, title \in {Math, En}, author \in {Ama, En},
        subject \in {Math, En}, language \in {Ama, En} :
       AddResource(id, title, author, subject, language, LocalPath, CoreSubjects, <<>>)
  \/ \E k \in Keywords : SearchResources(k)

SpecSearch == InitFresh /\ [][NextSearch]_vars

\* Report: catalogs of three to seven resources, more than the report lists,
\* downloaded and viewed by guests
NextReport ==
  \/ AddResource("r7", Math, Ama, Math, En, LocalPath, CoreSubjects, <<>>)
  \/ \E id \in {"r1", "r3", "r4", "r6"} : DownloadResource(id, TRUE, FALSE, FALSE)
  \/ \E id \in {"r3", "r6", "r7"} : ViewResource(id, FALSE, FALSE)
  \/ GetUsageReport

SpecReport == InitFrom({Shelf(3), Shelf(6)}) /\ [][NextReport]_vars

\* Admins: accounts of both roles added and removed, and the usage report
NextAdmins ==
  \/ \E u \in {"alice", "bob"} : RegisterUser(u, "pw1", "")
  \/ \E u \in Usernames, p \in {"admin123", "pw1"} : Login(u, p)
  \/ Logout
  \/ \E u \in {"admin", "bob"} : AddNewAdmin(u, "pw1", "a@x")
  \/ \E u \in Usernames : RemoveUser(u)
  \/ \E id \in Ids : AddResource(id, Math, Ama, Math, En, LocalPath, CoreSubjects, <<>>)
  \/ GetUsageReport

SpecAdmins ==
  InitFrom({[status |-> "missing"], StudentsOnly, OtherAdmin}) /\ [][NextAdmins]_vars

\* Catalog: resources of several categories, known and unknown, added under
\* ids that may repeat, viewed, and listed by category
NextCatalog ==
  \/ \E id \in Ids, title \in {Math, En}, category \in {CoreSubjects, Storybooks, Misc} :
       AddResource(id, title, Ama, Math, En, LocalPath, category, title)
  \/ ViewResource("r1", FALSE, FALSE)
  \/ \E category \in {CoreSubjects, Lower(CoreSubjects), Storybooks, Misc} :
       GetResourcesByCategory(category)

SpecCatalog == InitFresh /\ [][NextCatalog]_vars

\* Registration: usernames and passwords that are empty or a single space,
\* next to ordinary ones
NextRegistration ==
  \/ \E u \in {"", " ", "alice"}, p \in {"", " ", "pw1"} : RegisterUser(u, p, "")
  \/ \E u \in {"", "alice"}, p \in {"", "pw1"} : Login(u, p)
  \/ Logout

SpecRegistration == InitFresh /\ [][NextRegistration]_vars

\* Startup: the library built from a data file that is missing, not JSON, or
\* has a record without a required key, and used afterwards
NextStartup ==
  \/ \E u \in {"alice", "bob"} : RegisterUser(u, "pw1", "")
  \/ \E l \in Logins : Login(l[1], l[2])
  \/ Logout
  \/ \E id \in Ids : AddResource(id, Math, Ama, Math, En, LocalPath, CoreSubjects, <<>>)
  \/ \E id \in Ids : ViewResource(id, FALSE, FALSE)

SpecStartup ==
  InitFrom({[status |-> "missing"], NotJson, EarlierRun, LostPassword})
    /\ [][NextStartup]_vars

\* Persistence: every operation that saves, by the admin and by guests, on a
\* disk that takes the write, that runs full at any time, or that stops
\* accepting writes before the first resource is added
NextPersistence ==
  \/ RegisterUser("alice", "pw1", "")
  \/ \E p \in {"admin123", "pw1"} : Login("admin", p)
  \/ Logout
  \/ AddResource("r1", Math, Ama, Math, En, LocalPath, CoreSubjects, <<>>)
  \/ \E choice \in 0..1, title \in {<<>>, En} :
       EditResource(choice, title, <<>>, <<>>, <<>>, EmptyPath, <<>>)
  \/ AddNewAdmin("bob", "pw1", "")
  \/ \E u \in {"alice", "bob"} : RemoveUser(u)
  \/ AddToFavorites("r1")
  \/ ViewResource("r1", FALSE, FALSE)
  \/ DownloadResource("r1", TRUE, FALSE, FALSE)
  \/ \E state \in {"ok", "full"} : DiskChanges(state)
  \/ resources = <<>> /\ DiskChanges("readonly")

SpecPersistence == InitFresh /\ [][NextPersistence]_vars

\* Integrated favorites: a student and the admin add and remove favorites
\* while the admin adds books, on a disk that may run full and cut a write
NextLibFavorites ==
  \/ RegisterStudent("s1", "Ann", "")
  \/ \E student_id \in {"s1", "admin"} : LoginStudent(student_id)
  \/ LogoutStudent
  \/ \E book_id \in {1, 2} : StudentAddToFavorites(book_id)
  \/ \E book_id \in {1, 2} : StudentRemoveFromFavorites(book_id)
  \/ LoginAdmin("admin")
  \/ AddBook("Algebra", "Ama", "Maths", 1)
  \/ \E state \in {"ok", "full"} : DiskChanges(state)

SpecLibFavorites == InitFresh /\ [][NextLibFavorites]_vars

\* Editing: the admin of each variant edits entries of a catalog of several,
\* by a number or id that is or is not in it, giving some fields and not others
BookEdits ==
  {<<None, None, <<>>>>, <<"", "Maths", <<>>>>, <<"Algebra", None, <<0>>>>, <<None, "", <<3>>>>}

NextEdit ==
  \/ Login("admin", "admin123")
  \/ \E id \in {"r1", "r2"} : AddResource(id, Math, Ama, Math, En, LocalPath, CoreSubjects, <<>>)
  \/ \E choice \in 0..2, title \in {<<>>, En}, file_path \in {EmptyPath, UrlPath} :
       EditResource(choice, title, <<>>, <<>>, <<>>, file_path, <<>>)
  \/ LoginAdmin("admin")
  \/ AddBook("Algebra", "Ama", "Maths", 1)
  \/ \E book_id \in {3, 9}, fields \in BookEdits :
       EditBook(book_id, fields[1], None, fields[2], fields[3])

SpecEdit == InitFresh /\ [][NextEdit]_vars

\* Session: every operation of the library by guests and by two users who
\* log in with right and wrong passwords, also while another is logged in
NextSession ==
  \/ RegisterUser("alice", "pw1", "")
  \/ \E l \in Logins : Login(l[1], l[2])
  \/ Logout
  \/ AddResource("r1", Math, Ama, Math, En, LocalPath, CoreSubjects, <<>>)
  \/ SearchResources(Math)
  \/ GetResourcesByCategory(CoreSubjects)
  \/ ViewResource("r1", FALSE, FALSE)
  \/ DownloadResource("r1", TRUE, FALSE, FALSE)
  \/ AddToFavorites("r1")
  \/ GetUserFavorites
  \/ GetUsageReport

SpecSession == InitFresh /\ [][NextSession]_vars

\* Integrated administration: books added and edited and users managed,
\* before and after an admin logged in, by ids that are and are not stored
NextLibAdmin ==
  \/ RegisterStudent("s1", "Ann", "")
  \/ \E admin_id \in {"admin", "s1", "s2"} : LoginAdmin(admin_id)
  \/ \E title \in {"Algebra", " "}, copies \in {0, 1} : AddBook(title, "Ama", "Maths", copies)
  \/ \E book_id \in {3, 6, 9}, fields \in BookEdits :
       EditBook(book_id, fields[1], None, fields[2], fields[3])
  \/ \E user_id \in {"s1", "s2"}, action \in {"deactivate", "activate", "delete"} :
       ManageUser(user_id, action)

SpecLibAdmin == InitFresh /\ [][NextLibAdmin]_vars

\* Integrated status: the admin activates and deactivates a student who logs
\* in and out and changes favorites, in every order
NextLibStatus ==
  \/ RegisterStudent("s1", "Ann", "")
  \/ LoginStudent("s1")
  \/ LogoutStudent
  \/ \E book_id \in {1, 2} : StudentAddToFavorites(book_id)
  \/ \E book_id \in {1, 2} : StudentRemoveFromFavorites(book_id)
  \/ LoginAdmin("admin")
  \/ \E action \in {"deactivate", "activate"} : ManageUser("s1", action)

SpecLibStatus == InitFresh /\ [][NextLibStatus]_vars

\* Removal: admins added and users removed, the admin logged in among them,
\* while the user of the session adds favorites and views a resource
NextRemoval ==
  \/ RegisterUser("alice", "pw1", "")
  \/ \E l \in {<<"admin", "admin123">>, <<"alice", "pw1">>, <<"bob", "pw1">>} : Login(l[1], l[2])
  \/ Logout
  \/ AddNewAdmin("bob", "pw1", "")
  \/ \E u \in Usernames : RemoveUser(u)
  \/ AddResource("r1", Math, Ama, Math, En, LocalPath, CoreSubjects, <<>>)
  \/ AddToFavorites("r1")
  \/ ViewResource("r1", FALSE, FALSE)

SpecRemoval == InitFresh /\ [][NextRemoval]_vars

\* Two processes: each registers users and adds nothing else; the second
\* starts and ends at any time
NextTwoProcesses ==
  \/ \E u \in {"alice", "carol"} : RegisterUser(u, "pw1", "")
  \/ AddResource("r1", Math, Ama, Math, En, LocalPath, CoreSubjects, <<>>)
  \/ PeerStarts
  \/ PeerExits
  \/ \E u \in {"alice", "bob"} : PeerRegisterUser(u, "pw2", "")

SpecTwoProcesses == InitFresh /\ [][NextTwoProcesses]_vars

\* Student favorites: the StudentManager of student.py started on the
\* students file of an earlier run, in which s1 has the favorites 1 and 2,
\* and a books file that holds the books 2 and 3
ShelfNow == <<[book_id |-> 2, title |-> "Data Structures"],
              [book_id |-> 3, title |-> "Web Development"]>>

StudentsBefore ==
  <<[student_id |-> "s1", name |-> "Ann", email |-> "", borrowed_books |-> <<>>,
     favorites |-> <<1, 2>>]>>

InitStudentManager ==
  /\ users = Construct([status |-> "missing"]).users
  /\ resources = Construct([status |-> "missing"]).resources
  /\ document = Construct([status |-> "missing"]).document
  /\ current_user = None
  /\ disk = "ok"
  /\ registered = {}
  /\ lib = InitializeFiles
  /\ sm \in {StudentManagerInit(<<>>, ShelfNow), StudentManagerInit(StudentsBefore, ShelfNow)}
  /\ peer = NoPeer
  /\ last = Result("init", <<>>, None, FALSE)

NextStudentManager ==
  \/ \E student_id \in {"s1", "s2", " "} : SmRegisterStudent(student_id, "Ann", "")
  \/ \E student_id \in {"s1", "s2"} : SmLoginStudent(student_id)
  \/ SmLogoutStudent
  \/ \E book_id \in {1, 2, 3} : SmAddToFavorites(book_id)
  \/ \E book_id \in {1, 2, 3} : SmRemoveFromFavorites(book_id)

SpecStudentManager == InitStudentManager /\ [][NextStudentManager]_vars

-----------------------------------------------------------------------------
(* Properties.                                                                *)

\* the user stored under a username, read without the operations' helpers
Stored(us, username) == CHOOSE x \in Members(us) : x.username = username

Stores(us, username) == \E x \in Members(us) : x.username = username

\* C1 as stated: once register_user(u, p1) has returned True, every later
\* register_user(u, p2) returns False and leaves all users unchanged.
C1_AnyLaterRegisterFails ==
  [][(last'.op = "register_user" /\ last'.args[1] \in registered)
       => (last'.ret = FALSE /\ users' = users)]_vars

\* C1 amended: once register_user(u, p1) has returned True, every later
\* register_user(u, p2) made while u is still a key of users returns False
\* and leaves the stored user u and every other user unchanged.
C1_RegisterStoredFails ==
  [][(/\ last'.op = "register_user"
      /\ last'.args[1] \in registered
      /\ Stores(users, last'.args[1]))
       => (last'.ret = FALSE /\ users' = users)]_vars

\* a second registration of a stored name with another password and email
\* was refused
C1_Witness ==
  /\ last.op = "register_user"
  /\ last.ret = FALSE
  /\ last.args[1] \in registered
  /\ Stores(users, last.args[1])
  /\ Stored(users, last.args[1]).password # HashPassword(last.args[2])
  /\ Stored(users, last.args[1]).email # last.args[3]

\* C2: a login with an unknown username or a wrong password returns False
\* and leaves current_user as it was, a user or None.
C2_FailedLoginKeepsSession ==
  [][(/\ last'.op = "login"
      /\ \/ ~Stores(users, last'.args[1])
         \/ Stored(users, last'.args[1]).password # HashPassword(last'.args[2]))
       => (last'.ret = FALSE /\ current_user' = current_user)]_vars

\* a login failed while a user was logged in, and that user still is
C2_Witness ==
  /\ last.op = "login"
  /\ last.ret = FALSE
  /\ current_user # None
  /\ current_user # last.args[1]

\* C3: login(u, p) returns True exactly when u is a key of users and the
\* digest of p is the one stored for u; after a True the session is u.
C3_LoginIffStoredDigest ==
  [][last'.op = "login"
       => /\ last'.ret = TRUE <=>
               /\ Stores(users, last'.args[1])
               /\ Stored(users, last'.args[1]).password = HashPassword(last'.args[2])
          /\ last'.ret = TRUE => current_user' = last'.args[1]]_vars

\* alice, registered with pw2, logged in with pw2 and is the session
C3_Witness ==
  /\ last.op = "login"
  /\ last.ret = TRUE
  /\ current_user = last.args[1]
  /\ current_user = "alice"
  /\ Stored(users, "alice").password = HashPassword("pw2")

\* text contains keyword when letter case is ignored
ContainsIgnoringCase(text, keyword) ==
  \E i \in 1..(Len(text) + 1) : \E j \in (i - 1)..Len(text) :
    /\ j - i + 1 = Len(keyword)
    /\ \A n \in 1..Len(keyword) : LowerChar(text[i + n - 1]) = LowerChar(keyword[n])

\* the catalog positions search(k) has to return
Wanted(keyword) ==
  {i \in 1..Len(resources) :
     \/ ContainsIgnoringCase(resources[i].title, keyword)
     \/ ContainsIgnoringCase(resources[i].author, keyword)
     \/ ContainsIgnoringCase(resources[i].subject, keyword)
     \/ ContainsIgnoringCase(resources[i].language, keyword)}

\* list is, in catalog order and each once, the resources at positions
IsSelection(list, positions) ==
  /\ Len(list) = Cardinality(positions)
  /\ \A i \in positions : \E n \in 1..Len(list) : list[n] = resources[i]
  /\ \A n \in 1..Len(list) : \E i \in positions : list[n] = resources[i]
  /\ \A m \in 1..Len(list) : \A n \in 1..Len(list) :
       m < n => \E i \in positions : \E j \in positions :
                  i < j /\ list[m] = resources[i] /\ list[n] = resources[j]

\* C4: search_resources(k) returns exactly the resources with lower(k) in the
\* lower-cased title or author or subject or language, each once, in catalog
\* order, and returns the same list for every other casing of k.
C4_SearchAnyFieldIgnoringCase ==
  last.op = "search_resources"
    => /\ IsSelection(last.ret, Wanted(last.args[1]))
       /\ \A k \in Keywords :
            Lower(k) = Lower(last.args[1]) => SearchResults(resources, k) = last.ret

\* an upper-case keyword found one of two resources, in its author alone
C4_Witness ==
  /\ last.op = "search_resources"
  /\ last.args[1] = <<"M", "A">>
  /\ Len(resources) = 2
  /\ Len(last.ret) = 1
  /\ last.ret[1] = resources[2]
  /\ last.ret[1].title = En /\ last.ret[1].author = Ama
  /\ last.ret[1].subject = En /\ last.ret[1].language = En

\* a list holds no value twice
NoDuplicates(list) ==
  \A m \in 1..Len(list) : \A n \in 1..Len(list) : list[m] = list[n] => m = n

\* C5: in every reachable state each user's favorites hold every resource id
\* at most once, and an add_to_favorites of an id that already is a favorite
\* of the current user returns False and leaves the favorites unchanged.
C5_FavoritesHoldEachIdOnce ==
  /\ [](\A x \in Members(users) : NoDuplicates(x.favorites))
  /\ [][(/\ last'.op = "add_to_favorites"
         /\ current_user # None
         /\ last'.args[1] \in Members(Stored(users, current_user).favorites))
          => (last'.ret = FALSE /\ users' = users)]_vars

\* the second add of a favorite was refused, with two favorites stored
C5_Witness ==
  /\ last.op = "add_to_favorites"
  /\ last.ret = FALSE
  /\ current_user # None
  /\ last.args[1] \in Members(Stored(users, current_user).favorites)
  /\ last.args[1] \in ResourceIds(resources)
  /\ Len(Stored(users, current_user).favorites) = 2

\* the favorites of every user, by username
FavoritesOf(us) == {<<x.username, x.favorites>> : x \in Members(us)}

\* C6: add_to_favorites(id) returns False and changes no favorites when no
\* session is active or id is not in the catalog; with a session and an id of
\* the catalog that is not yet a favorite it appends id to the current user's
\* favorites, changes no other user's favorites, and returns True.
C6_AddToFavorites ==
  [][last'.op = "add_to_favorites"
       => /\ (current_user = None \/ last'.args[1] \notin ResourceIds(resources))
               => (last'.ret = FALSE /\ FavoritesOf(users') = FavoritesOf(users))
          /\ (/\ current_user # None
              /\ last'.args[1] \in ResourceIds(resources)
              /\ last'.args[1] \notin Members(Stored(users, current_user).favorites))
               => /\ last'.ret = TRUE
                  /\ Stored(users', current_user).favorites =
                       Append(Stored(users, current_user).favorites, last'.args[1])
                  /\ \A x \in Members(users) :
                       x.username # current_user
                         => Stored(users', x.username).favorites = x.favorites
                  /\ UserNames(users') = UserNames(users)]_vars

\* a second favorite was appended while another user had favorites
C6_Witness ==
  /\ last.op = "add_to_favorites"
  /\ last.ret = TRUE
  /\ current_user # None
  /\ Len(Stored(users, current_user).favorites) = 2
  /\ Stored(users, current_user).favorites[2] = last.args[1]
  /\ \E x \in Members(users) : x.username # current_user /\ x.favorites # <<>>

\* the favorite ids that are keys of the catalog, in favorites order
Resolving(ids) == SelectSeq(ids, LAMBDA id : \E r \in Members(resources) : r.id = id)

\* C7: get_user_favorites returns the catalog's resources of exactly the
\* current user's favorite ids that are keys of the catalog, in the order of
\* the favorites, and the empty list when no session is active.
C7_FavoritesResolved ==
  last.op = "get_user_favorites"
    => IF current_user = None
       THEN last.ret = <<>>
       ELSE LET ids == Resolving(Stored(users, current_user).favorites)
            IN  /\ Len(last.ret) = Len(ids)
                /\ \A n \in 1..Len(ids) :
                     /\ last.ret[n].id = ids[n]
                     /\ last.ret[n] \in Members(resources)

\* of two favorites the one that is not in the catalog was left out
C7_Witness ==
  /\ last.op = "get_user_favorites"
  /\ current_user # None
  /\ Len(Stored(users, current_user).favorites) = 2
  /\ Stored(users, current_user).favorites[1] \notin ResourceIds(resources)
  /\ Len(last.ret) = 1
  /\ last.ret[1].id = Stored(users, current_user).favorites[2]

\* rs with one more view (download) of the resource id and nothing else changed
OneMoreView(rs, id) ==
  [i \in 1..Len(rs) |->
     IF rs[i].id = id THEN [rs[i] EXCEPT !.view_count = rs[i].view_count + 1] ELSE rs[i]]

OneMoreDownload(rs, id) ==
  [i \in 1..Len(rs) |->
     IF rs[i].id = id THEN [rs[i] EXCEPT !.download_count = rs[i].download_count + 1]
     ELSE rs[i]]

\* C8: every view_resource(id) of an existing id raises that resource's
\* view_count by exactly 1, every download_resource(id) its download_count,
\* whatever is opened or fetched and whether that succeeds; the other counter
\* and all other resources stay as they are.
C8_OneCountPerCall ==
  [][/\ (last'.op = "view_resource" /\ last'.args[1] \in ResourceIds(resources))
          => resources' = OneMoreView(resources, last'.args[1])
     /\ (last'.op = "download_resource" /\ last'.args[1] \in ResourceIds(resources))
          => resources' = OneMoreDownload(resources, last'.args[1])]_vars

\* the second view of a resource whose file does not exist was counted, next
\* to a resource with a download
C8_Witness ==
  /\ last.op = "view_resource"
  /\ last.ret = "File not found"
  /\ Len(resources) = 2
  /\ \E r \in Members(resources) :
       r.id = last.args[1] /\ r.view_count = 2 /\ r.download_count = 0
  /\ \E r \in Members(resources) : r.id # last.args[1] /\ r.download_count = 1

\* C9: view_resource(id) and download_resource(id) with an id that is not in
\* the catalog return "Resource not found" and change no counter, no
\* reading_history, no resource and no user, and do not write the document.
C9_UnknownIdChangesNothing ==
  [][(/\ last'.op \in {"view_resource", "download_resource"}
      /\ last'.args[1] \notin ResourceIds(resources))
       => /\ last'.ret = "Resource not found"
          /\ last'.saved = FALSE
          /\ resources' = resources
          /\ users' = users
          /\ document' = document
          /\ current_user' = current_user]_vars

\* a download of an id that is not in the catalog was refused during a
\* session, with another resource in the catalog
C9_Witness ==
  /\ last.op = "download_resource"
  /\ last.ret = "Resource not found"
  /\ last.saved = FALSE
  /\ last.args[1] \notin ResourceIds(resources)
  /\ Len(resources) = 1
  /\ resources[1].download_count = 1
  /\ current_user # None

\* C10: every user's reading_history holds each id at most once; a view or
\* download of an existing id by the logged-in user appends the id unless it
\* is there already, and no other step changes, removes or reorders an entry
\* of any user's reading_history.
C10_HistoryOfFirstAccesses ==
  /\ [](\A x \in Members(users) : NoDuplicates(x.reading_history))
  /\ [][/\ UserNames(users') = UserNames(users)
        /\ \A x \in Members(users) :
             Stored(users', x.username).reading_history =
               IF /\ last'.op \in {"view_resource", "download_resource"}
                  /\ last'.args[1] \in ResourceIds(resources)
                  /\ current_user = x.username
                  /\ last'.args[1] \notin Members(x.reading_history)
               THEN Append(x.reading_history, last'.args[1])
               ELSE x.reading_history]_vars

\* alice accessed r2 and then r1, the admin r1 only, and r1 was accessed
\* three times in all
C10_Witness ==
  /\ last.op \in {"view_resource", "download_resource"}
  /\ last.args[1] = "r1"
  /\ current_user = "alice"
  /\ Stored(users, "alice").reading_history = <<"r2", "r1">>
  /\ Stored(users, "admin").reading_history = <<"r1">>
  /\ \E r \in Members(resources) : r.id = "r1" /\ r.view_count + r.download_count >= 3

\* C11: with no session (guest), view_resource(id) and download_resource(id)
\* of an existing id still raise the view_count, respectively the
\* download_count, of that resource by one, and leave the reading_history and
\* the favorites of every user as they are.
C11_GuestAccessCountsOnly ==
  [][(/\ last'.op \in {"view_resource", "download_resource"}
      /\ last'.args[1] \in ResourceIds(resources)
      /\ current_user = None)
       => /\ resources' = IF last'.op = "view_resource"
                           THEN OneMoreView(resources, last'.args[1])
                           ELSE OneMoreDownload(resources, last'.args[1])
          /\ UserNames(users') = UserNames(users)
          /\ \A x \in Members(users) :
                /\ Stored(users', x.username).reading_history = x.reading_history
                /\ Stored(users', x.username).favorites = x.favorites]_vars

\* a guest viewed r1, which is alice's favorite and in the admin's
\* reading_history but not in alice's
C11_Witness ==
  /\ current_user = None
  /\ last.op = "view_resource"
  /\ last.args[1] = "r1"
  /\ last.ret # "Resource not found"
  /\ \E r \in Members(resources) : r.id = "r1" /\ r.view_count = 2
  /\ Stores(users, "alice")
  /\ "r1" \in Members(Stored(users, "alice").favorites)
  /\ Stored(users, "alice").reading_history = <<>>
  /\ Stored(users, "admin").reading_history = <<"r1">>

\* the place of the resource id in the catalog, which keeps creation order
PlaceOf(rs, id) == CHOOSE i \in 1..Len(rs) : rs[i].id = id

\* list holds the up to five resources of rs with the highest count key, the
\* highest first, those of an equal count in the order of the catalog
IsTopFive(list, rs, key) ==
  /\ Len(list) = IF Len(rs) < 5 THEN Len(rs) ELSE 5
  /\ \A i \in 1..Len(list) : list[i] \in Members(rs)
  /\ \A i, j \in 1..Len(list) :
        i < j => /\ list[i][key] >= list[j][key]
                 /\ list[i][key] = list[j][key]
                      => PlaceOf(rs, list[i].id) < PlaceOf(rs, list[j].id)
  /\ \A r \in Members(rs) :
        (\A i \in 1..Len(list) : list[i].id # r.id)
          => \A i \in 1..Len(list) : list[i][key] >= r[key]

\* C12: in every catalog state, most_downloaded of get_usage_report() has
\* length min(5, number of resources), is sorted by non-increasing
\* download_count, holds no resource of a smaller download_count than one it
\* leaves out, and lists resources of an equal download_count in catalog
\* creation order; likewise most_viewed with view_count.
C12_ReportListsTopFive ==
  last.op = "get_usage_report"
    => /\ IsTopFive(last.ret.most_downloaded, resources, "download_count")
       /\ IsTopFive(last.ret.most_viewed, resources, "view_count")

\* a report over six resources: r5 leads with two downloads, r2 and r4 follow
\* with one each in catalog order, r6 of no download is left out, and r6
\* leads the most viewed
C12_Witness ==
  /\ last.op = "get_usage_report"
  /\ Len(resources) = 6
  /\ [i \in 1..5 |-> last.ret.most_downloaded[i].id] = <<"r5", "r2", "r4", "r1", "r3">>
  /\ [i \in 1..5 |-> last.ret.most_downloaded[i].download_count] = <<2, 1, 1, 0, 0>>
  /\ last.ret.most_viewed[1].id = "r6"
  /\ last.ret.most_viewed[1].view_count = 2

\* C13: get_usage_report reports as total_resources the number of resources
\* in the catalog and as its student total the number of users whose role is
\* student; admins, the default one and those added later, are not counted.
C13_ReportTotals ==
  last.op = "get_usage_report"
    => /\ last.ret.total_resources = Cardinality(ResourceIds(resources))
       /\ last.ret.total_users =
            Cardinality({x \in Members(users) : x.role = "student"})

\* a report of one student and two resources while the default admin and the
\* admin bob, added later, are users too
C13_Witness ==
  /\ last.op = "get_usage_report"
  /\ last.ret.total_users = 1
  /\ last.ret.total_resources = 2
  /\ UserNames(users) = {"admin", "alice", "bob"}
  /\ Stored(users, "admin").password = HashPassword("admin123")
  /\ Stored(users, "bob").role = "admin"
  /\ Stored(users, "bob").email = "a@x"

\* C14: add_resource(title, author, subject, language, file_path, category,
\* description) returns an id that is a key of the catalog afterwards; the
\* resource stored under it has exactly the given field values and
\* download_count = 0 and view_count = 0; the category is stored as given
\* also when it is none of the known categories.
C14_AddResourceStoresFields ==
  [][last'.op = "add_resource"
       => /\ Cardinality({i \in 1..Len(resources') : resources'[i].id = last'.ret}) = 1
          /\ \A r \in Members(resources') :
                r.id = last'.ret
                  => /\ <<r.title, r.author, r.subject, r.language, r.file_path,
                           r.category, r.description>> = last'.args
                     /\ r.download_count = 0
                     /\ r.view_count = 0]_vars

\* a resource of the unknown category Misc was added next to one that has
\* been viewed
C14_Witness ==
  /\ last.op = "add_resource"
  /\ last.args[6] = Misc
  /\ Len(resources) = 2
  /\ \E r \in Members(resources) :
       r.id = last.ret /\ r.category = Misc /\ r.title = En /\ r.description = En
  /\ \E r \in Members(resources) : r.id # last.ret /\ r.view_count = 1

\* C15: every add_resource returns an id that differs from every id already
\* in the catalog, so the catalog grows by exactly one resource per call and
\* no resource that was in it is replaced or changed.
C15_EveryAddGetsFreshId ==
  [][last'.op = "add_resource"
       => /\ last'.ret \notin ResourceIds(resources)
          /\ Len(resources') = Len(resources) + 1
          /\ \A i \in 1..Len(resources) : resources'[i] = resources[i]]_vars

\* C17: get_resources_by_category(c) returns exactly the resources whose
\* category equals c when letter case is ignored, in catalog creation order;
\* a resource stored with category "Core Subjects" is returned for the query
\* "core subjects".
C17_ByCategoryIgnoringCase ==
  last.op = "get_resources_by_category"
    => /\ \A i \in 1..Len(last.ret) : Lower(last.ret[i].category) = Lower(last.args[1])
       /\ \A r \in Members(resources) :
             Lower(r.category) = Lower(last.args[1]) => r \in Members(last.ret)
       /\ \A i, j \in 1..Len(last.ret) :
             i < j => PlaceOf(resources, last.ret[i].id) < PlaceOf(resources, last.ret[j].id)

\* the strings of the model that str.strip() makes empty
EmptyWhenTrimmed(text) == text \in {"", " "}

\* C16: register_user(username, password, email) returns False and creates
\* no user when the username or the password is empty after trimming
\* whitespace; otherwise, for a username not yet present, it creates a user
\* of role student with empty favorites and empty reading_history and
\* returns True.
C16_RegisterRefusesEmpty ==
  [][last'.op = "register_user"
       => IF EmptyWhenTrimmed(last'.args[1]) \/ EmptyWhenTrimmed(last'.args[2])
          THEN last'.ret = FALSE /\ users' = users
          ELSE ~Stores(users, last'.args[1])
                 => /\ last'.ret = TRUE
                    /\ Stores(users', last'.args[1])
                    /\ Stored(users', last'.args[1]).role = "student"
                    /\ Stored(users', last'.args[1]).favorites = <<>>
                    /\ Stored(users', last'.args[1]).reading_history = <<>>]_vars

\* C18: in every state reached after the construction through register_user,
\* login, logout, add_new_admin and remove_user (the last two from an admin
\* session), some user has the role admin; the construction adds the default
\* admin exactly when the loaded users hold no admin, and otherwise leaves
\* the loaded users as they are.
C18_AdminAlwaysExists ==
  /\ \E x \in Members(users) : x.role = "admin"
  /\ last.op = "init"
       => LET loaded == LoadData(last.args[1], Now).users
          IN  IF \E x \in Members(loaded) : x.role = "admin"
              THEN users = loaded
              ELSE /\ Len(users) = Len(loaded) + 1
                   /\ SubSeq(users, 1, Len(loaded)) = loaded
                   /\ users[Len(users)].username = "admin"
                   /\ users[Len(users)].role = "admin"
                   /\ users[Len(users)].password = HashPassword("admin123")

\* bob, an admin, has removed the default admin and is the only admin, next
\* to a student
C18_Witness ==
  /\ last.op = "remove_user"
  /\ last.args[1] = "admin"
  /\ last.ret = "removed"
  /\ current_user = "bob"
  /\ UserNames(users) = {"alice", "bob"}
  /\ Stored(users, "alice").role = "student"

\* a data file that load_data cannot read in full
Damaged(doc) ==
  \/ doc.status # "json"
  \/ \E d \in Members(doc.users) : ~(UserRequired \subseteq DOMAIN d)
  \/ \E d \in Members(doc.resources) : ~(ResourceRequired \subseteq DOMAIN d)

\* C19: load_data does not raise; when the data file is missing, is not
\* valid JSON, or has a user or resource record without an expected key, the
\* users and resources after load_data are both empty, with no part of the
\* file loaded, and the library is usable with the default admin, which is
\* then created, as its only user.
C19_DamagedFileLoadsNothing ==
  (last.op = "init" /\ Damaged(last.args[1]))
    => /\ resources = <<>>
       /\ UserNames(users) = {"admin"}
       /\ Stored(users, "admin").role = "admin"
       /\ Stored(users, "admin").password = HashPassword("admin123")
       /\ last.saved = TRUE

\* the operations that change users or resources
Mutating ==
  {"register_user", "add_resource", "edit_resource", "add_new_admin", "remove_user",
   "add_to_favorites", "view_resource", "download_resource"}

\* C20: after every completed mutating operation (register_user,
\* add_resource, the admin's edit_resource, add_new_admin, remove_user,
\* add_to_favorites, view_resource, download_resource) whose write succeeds,
\* the document is the serialization of all users and resources in memory:
\* no operation returns with a change in memory that is not in the document.
C20_DocumentFollowsMemory ==
  [][disk = "ok"
       => /\ (last'.op \in Mutating /\ last'.saved)
               => document' = SaveData(users', resources')
          /\ (users' # users \/ resources' # resources)
               => /\ last'.op \in Mutating
                  /\ document' = SaveData(users', resources')]_vars

\* the admin's edit of the title of a viewed resource is in the document,
\* which holds the admin bob and the student alice too, on a disk that
\* accepts writes
C20_Witness ==
  /\ last.op = "edit_resource"
  /\ last.ret = "Resource updated successfully!"
  /\ disk = "ok"
  /\ document.status = "json"
  /\ Len(document.resources) = 1
  /\ document.resources[1].title = En
  /\ document.resources[1].view_count = 1
  /\ {d.username : d \in Members(document.users)} = {"admin", "alice", "bob"}
  /\ \E d \in Members(document.users) : d.username = "admin" /\ d.favorites = <<"r1">>

\* the operations that C21 says leave the counters of every resource alone
CounterKeeping ==
  {"register_user", "login", "logout", "add_resource", "add_to_favorites",
   "get_user_favorites", "edit_resource"}

\* C21: along every sequence of operations the view_count and the
\* download_count of every resource are non-negative and never decrease from
\* one state to the next; register_user, login, logout, an add_resource of
\* another resource, the favorites operations and the admin's edit_resource
\* leave both counters of every resource unchanged.
C21_CountersNeverDecrease ==
  /\ [](\A r \in Members(resources) : r.view_count >= 0 /\ r.download_count >= 0)
  /\ [][\A r \in Members(resources) :
          /\ r.id \in ResourceIds(resources')
          /\ resources'[PlaceOf(resources', r.id)].view_count >= r.view_count
          /\ resources'[PlaceOf(resources', r.id)].download_count >= r.download_count
          /\ last'.op \in CounterKeeping
               => /\ resources'[PlaceOf(resources', r.id)].view_count = r.view_count
                  /\ resources'[PlaceOf(resources', r.id)].download_count =
                       r.download_count]_vars

\* list without the value x, the rest in its order
Without(list, x) == SelectSeq(list, LAMBDA y : y # x)

\* the record of the student student_id in the students file, as a set
StoredStudents(students, student_id) ==
  {x \in Members(students) : x.student_id = student_id}

\* C22: remove_from_favorites(id) returns false and leaves the favorites
\* unchanged when id is not in the current user's favorites or no user is
\* logged in; otherwise it removes id, keeps every other favorite in its
\* relative order, persists (the stored record of the user, when the write
\* goes through, holds the same favorites) and returns true, also when id
\* resolves to no catalog entry any more.
C22_RemoveFavorite ==
  [][last'.op = "remove_from_favorites"
       => IF lib.current_student = <<>>
          THEN last'.ret[1] = FALSE /\ lib' = lib
          ELSE IF last'.args[1] \notin Members(lib.current_student[1].favorites)
               THEN last'.ret[1] = FALSE /\ lib' = lib
               ELSE /\ last'.ret[1] = TRUE
                    /\ lib'.current_student[1].favorites =
                         Without(lib.current_student[1].favorites, last'.args[1])
                    /\ (disk = "ok" /\ StoredStudents(lib.students,
                                         lib.current_student[1].student_id) # {})
                         => \A x \in StoredStudents(lib'.students,
                                                    lib.current_student[1].student_id) :
                              x.favorites = lib'.current_student[1].favorites
                    /\ lib'.books = lib.books]_vars

\* the student s1 removed the first of two favorites, which is in no stored
\* book any more, and the stored record holds the other one
C22_Witness ==
  /\ last.op = "remove_from_favorites"
  /\ last.ret[1] = TRUE
  /\ last.args[1] = 1
  /\ \A b \in Members(lib.books) : b.book_id # 1
  /\ lib.current_student # <<>>
  /\ lib.current_student[1].student_id = "s1"
  /\ \E x \in Members(lib.students) : x.student_id = "s1" /\ x.favorites = <<2>>

\* C22 for the StudentManager of student.py: as C22_RemoveFavorite, with the
\* favorites of the student logged in and the students file.
C22_RemoveFavoriteStudentManager ==
  [][last'.op = "sm_remove_from_favorites"
       => LET before == {x \in Members(sm.students) : x.student_id = sm.current_student}
              after == {x \in Members(sm'.students) : x.student_id = sm.current_student}
          IN  IF \A x \in before : last'.args[1] \notin Members(x.favorites)
              THEN last'.ret = Returned(FALSE) /\ sm' = sm
              ELSE /\ last'.ret = Returned(TRUE)
                   /\ \A x \in before : \A y \in after :
                         y.favorites = Without(x.favorites, last'.args[1])
                   /\ sm'.data_file = SaveStudentData(sm'.students)]_vars

\* the new value of a field of edit_resource: the one provided, unless empty
Chosen(value, old) == IF value # <<>> /\ value # EmptyPath THEN value ELSE old

\* the new value of a field of edit_book: the one provided, unless empty
ChosenText(value, old) == IF value # None /\ value # "" THEN value ELSE old

\* edit_book by a logged-in admin, for every field but available_copies
EditBookFrame ==
  (last'.op = "edit_book" /\ lib.current_admin # <<>>)
    => LET a == last'.args
       IN  IF \A i \in DOMAIN lib.books : lib.books[i].book_id # a[1]
           THEN last'.ret = <<FALSE, "Book not found">> /\ lib' = lib
           ELSE /\ last'.ret[1] = TRUE
                /\ DOMAIN lib'.books = DOMAIN lib.books
                /\ lib'.students = lib.students
                /\ \A i \in DOMAIN lib.books :
                     LET old == lib.books[i]
                         new == lib'.books[i]
                     IN  IF old.book_id # a[1]
                         THEN new = old
                         ELSE /\ new.book_id = old.book_id
                              /\ new.title = ChosenText(a[2], old.title)
                              /\ new.author = ChosenText(a[3], old.author)
                              /\ new.category = ChosenText(a[4], old.category)
                              /\ new.total_copies =
                                    IF a[5] # <<>> THEN a[5][1] ELSE old.total_copies
                              /\ new.borrowed_by = old.borrowed_by

\* edit_resource by the number of an entry in the list of resources
EditResourceFrame ==
  last'.op = "edit_resource"
    => LET a == last'.args
       IN  IF a[1] \notin DOMAIN resources
           THEN /\ last'.ret \in {"Invalid selection.", "No resources available to edit."}
                /\ resources' = resources
                /\ document' = document
           ELSE /\ DOMAIN resources' = DOMAIN resources
                /\ \A i \in DOMAIN resources :
                     IF i # a[1]
                     THEN resources'[i] = resources[i]
                     ELSE resources'[i] =
                            [resources[i] EXCEPT
                               !.title = Chosen(a[2], @), !.author = Chosen(a[3], @),
                               !.subject = Chosen(a[4], @), !.language = Chosen(a[5], @),
                               !.file_path = Chosen(a[6], @),
                               !.description = Chosen(a[7], @)]

\* C23 as stated: an edit of an unknown entry fails with not-found and
\* changes nothing; an edit of a known one overwrites only the fields that
\* were provided and leaves the id, every field that was not provided
\* (available_copies is never one of them) and every other entry unchanged.
C23_EditOverwritesOnlyProvided ==
  [][/\ EditResourceFrame
     /\ EditBookFrame
     /\ last'.op = "edit_book"
          => \A i \in DOMAIN lib.books \cap DOMAIN lib'.books :
               lib'.books[i].available_copies = lib.books[i].available_copies]_vars

\* C23, amended: as above, except that an edit_book that is given
\* total_copies also sets available_copies of that book to the new total
\* less the copies that were out, and not below 0; without total_copies
\* available_copies stays.  An empty text counts as not provided.
C23_EditAdjustsAvailable ==
  [][/\ EditResourceFrame
     /\ EditBookFrame
     /\ last'.op = "edit_book"
          => \A i \in DOMAIN lib.books \cap DOMAIN lib'.books :
               LET old == lib.books[i]
               IN  lib'.books[i].available_copies =
                     IF last'.ret[1] = TRUE /\ old.book_id = last'.args[1]
                        /\ last'.args[5] # <<>>
                     THEN IF last'.args[5][1] > old.total_copies - old.available_copies
                          THEN last'.args[5][1] - (old.total_copies - old.available_copies)
                          ELSE 0
                     ELSE old.available_copies]_vars

\* an edit_book that lowered the total of book 3, of which one copy is out,
\* to 0 and left no copy available, after an edit of the title only
C23_Witness ==
  /\ last.op = "edit_book"
  /\ last.ret[1] = TRUE
  /\ last.args[5] = <<0>>
  /\ \E i \in DOMAIN lib.books :
       /\ lib.books[i].book_id = 3
       /\ lib.books[i].title = "Algebra"
       /\ lib.books[i].total_copies = 0
       /\ lib.books[i].available_copies = 0
  /\ \E i \in DOMAIN resources : resources[i].title = En

\* the operations that are neither login nor logout
SessionKeeping ==
  {"register_user", "add_resource", "search_resources", "get_resources_by_category",
   "view_resource", "download_resource", "add_to_favorites", "get_user_favorites",
   "get_usage_report"}

\* C24: current_user changes only by a login that succeeds, to the user who
\* logged in, and by logout, to None whatever it was; a login that fails and
\* register_user, add_resource, search_resources, get_resources_by_category,
\* view_resource, download_resource, add_to_favorites, get_user_favorites and
\* get_usage_report leave it as it was.
C24_SessionChangesByLoginAndLogout ==
  [][/\ last'.op = "login"
          => current_user' = IF last'.ret = TRUE THEN last'.args[1] ELSE current_user
     /\ last'.op = "logout" => current_user' = None
     /\ last'.op \in SessionKeeping => current_user' = current_user]_vars

\* the admin stays logged in after a login of alice with a wrong password
C24_Witness ==
  /\ current_user = "admin"
  /\ last.op = "login"
  /\ last.args = <<"alice", "pw2">>
  /\ last.ret = FALSE

\* C25: while current_admin is empty, add_book, edit_book and manage_user
\* return (False, "Admin login required") and leave both files as they are;
\* login_admin sets current_admin only to a stored record of its id whose
\* user_type is admin.
C25_AdminLoginRequired ==
  [][/\ (last'.op \in {"add_book", "edit_book", "manage_user"} /\ lib.current_admin = <<>>)
          => /\ last'.ret = <<FALSE, "Admin login required">>
             /\ lib' = lib
             /\ ~last'.saved
     /\ (last'.op = "login_admin" /\ lib'.current_admin # lib.current_admin)
          => \E i \in DOMAIN lib.students :
               /\ lib.students[i].student_id = last'.args[1]
               /\ lib.students[i].user_type = "admin"
               /\ lib'.current_admin = <<lib.students[i]>>
     /\ last'.op # "login_admin" => lib'.current_admin = lib.current_admin]_vars

\* manage_user on the stored student s1 refused, no admin being logged in
\* after s1 tried login_admin
C25_Witness ==
  /\ last.op = "manage_user"
  /\ last.args = <<"s1", "deactivate">>
  /\ last.ret = <<FALSE, "Admin login required">>
  /\ \E i \in DOMAIN lib.students : lib.students[i].student_id = "s1"
  /\ lib.current_admin = <<>>

\* C29: from the sample data on, through every add_book and edit_book, the
\* stored books have pairwise distinct book_id values and next_book_id is
\* greater than every one of them.
C29_BookIdsDistinct ==
  /\ \A i, j \in DOMAIN lib.books :
       lib.books[i].book_id = lib.books[j].book_id => i = j
  /\ \A i \in DOMAIN lib.books : lib.books[i].book_id < lib.next_book_id

\* two books added to the five samples, and the first of them edited
C29_Witness ==
  /\ Len(lib.books) = 7
  /\ last.op = "edit_book"
  /\ last.args[1] = 6
  /\ last.ret[1] = TRUE
  /\ lib.next_book_id = 8

\* user.get("status")
StatusOf(user) == IF "status" \in DOMAIN user THEN user.status ELSE None

\* C30: the status manage_user wrote to a stored record stays in it until
\* the next manage_user: no other operation, in particular no
\* add_to_favorites or remove_from_favorites of a student who logged in
\* before the status was written, changes the status of a stored record.
C30_StatusStaysUntilManaged ==
  [][last'.op # "manage_user"
       => \A i \in DOMAIN lib.students \cap DOMAIN lib'.students :
            StatusOf(lib'.students[i]) = StatusOf(lib.students[i])]_vars

\* C26: in every state, what save_data writes, loaded by load_data into a
\* library started later, gives the same users in the same order, with the
\* digest as stored, email, role, favorites, reading_history and created_at,
\* and the same resources in the same order with every field and both
\* counters; a password that is verified before is verified after.
C26_SaveThenLoad ==
  LET loaded == LoadData(SaveData(users, resources), Later)
  IN  /\ loaded.users = users
      /\ loaded.resources = resources
      /\ \A i \in DOMAIN users : \A password \in Passwords :
           VerifyPassword(users[i], password)
             => VerifyPassword(loaded.users[i], password)

\* alice, registered in this run, has two favorites and a reading history,
\* and resource r1 was viewed and downloaded
C26_Witness ==
  /\ \E i \in DOMAIN users :
       /\ users[i].username = "alice"
       /\ Len(users[i].favorites) >= 2
       /\ users[i].reading_history # <<>>
       /\ VerifyPassword(users[i], "pw1")
  /\ \E i \in DOMAIN resources :
       resources[i].download_count > 0 /\ resources[i].view_count > 0
  /\ Len(resources) >= 2

\* the users stored under the name of the session
SessionUsers(us, session) == {x \in Members(us) : x.username = session}

\* C27: remove_user refuses the name of the active session, so in every state
\* the user of an active session is a key of users; a favorite added and a
\* resource viewed through the session are in the record stored under that
\* key.
C27_SessionUserIsStored ==
  /\ [](current_user # None => SessionUsers(users, current_user) # {})
  /\ [][/\ (last'.op = "remove_user" /\ last'.args[1] = current_user)
             => /\ last'.ret = "Cannot remove currently logged in admin"
                /\ users' = users
                /\ current_user' = current_user
        /\ (last'.op = "add_to_favorites" /\ last'.ret = TRUE)
             => \A x \in SessionUsers(users', current_user') :
                  last'.args[1] \in Members(x.favorites)
        /\ (last'.op = "view_resource" /\ last'.saved /\ current_user # None)
             => \A x \in SessionUsers(users', current_user') :
                  last'.args[1] \in Members(x.reading_history)]_vars

\* the admin bob, logged in, was refused the removal of bob after the admin
\* who created the account was removed
C27_Witness ==
  /\ current_user = "bob"
  /\ last.op = "remove_user"
  /\ last.args = <<"bob">>
  /\ last.ret = "Cannot remove currently logged in admin"
  /\ "admin" \notin UserNames(users)
  /\ "bob" \in UserNames(users)

\* the usernames in a data file
NamesIn(doc) == {doc.users[i].username : i \in DOMAIN doc.users}

\* C28: a register_user that succeeds in one of two processes on the same
\* data file writes the whole document from the dicts of that process: the
\* document then holds that process's users and resources and no others, so
\* after process A registered a and then process B, started before, registers
\* b, the document holds b and not a.
C28_LastRewriteWins ==
  [][/\ (last'.op = "peer_register_user" /\ last'.ret = TRUE)
          => /\ document' = SaveData(peer'.users, peer'.resources)
             /\ NamesIn(document') = UserNames(peer.users) \cup {last'.args[1]}
     /\ (last'.op = "register_user" /\ last'.ret = TRUE)
          => /\ document' = SaveData(users', resources')
             /\ NamesIn(document') = UserNames(users) \cup {last'.args[1]}]_vars

\* the second process registered bob after the first registered carol, and
\* the document holds bob and not carol
C28_Witness ==
  /\ last.op = "peer_register_user"
  /\ last.args[1] = "bob"
  /\ last.ret = TRUE
  /\ "carol" \in UserNames(users)
  /\ "carol" \notin UserNames(peer.users)
  /\ "bob" \in NamesIn(document)
  /\ "carol" \notin NamesIn(document)

====
